---- MODULE Spec2Model ----
(***************************************************************************)
(* Proposal negotiation workflow of the commission marketplace             *)
(* (src/src/lib/services/proposal.service.ts).                             *)
(*                                                                         *)
(* The service functions are translated from proposal.service.ts.  The     *)
(* persistence functions they import from                                  *)
(* lib/db/repositories/proposal.repository (artistResponds, cancelProposal,*)
(* clientRespondsToAdjustment, finalizeAcceptance, bulkExpirePending,      *)
(* createProposal, updateProposal, computeDynamicEstimate) and             *)
(* contract.repository / commissionListing.repository are not part of the  *)
(* source tree; they are modelled from spec.md sections 4 and 5: every     *)
(* repository transition re-reads the stored status and writes only when   *)
(* the transition is legal from it.                                        *)
(*                                                                         *)
(* Each call runs to completion (spec.md 5); lastCall keeps what the call  *)
(* was and how it ended until it returns.                                  *)
(*                                                                         *)
(* Dates are whole days counted from an epoch.  An optional value          *)
(* (undefined / null / absent form field) is the empty sequence <<>>, a    *)
(* present value v is <<v>>.                                               *)
(***************************************************************************)
EXTENDS Integers, Sequences, FiniteSets, TLC

VARIABLES proposals, now, contractDeadline, lastCall, inflight,
          commissionListings

vars ==
  <<proposals, now, contractDeadline, lastCall, inflight, commissionListings>>

----------------------------------------------------------------------------
(* Bounds of the model *)

MaxTime == 2

MaxDeadline == 3

MaxContractDeadline == 1

MaxSweep == 2

MaxSelections == 2

MaxGroups == 2

(* Program constants *)

MaxReferenceImages == 5

StandardDeadlineDays == 14

ExpiryDays == 1

----------------------------------------------------------------------------
(* Optional values and JavaScript truthiness *)

Opt(S) == {<<>>} \cup {<<x>> : x \in S}

TruthyNum(o) == o # <<>> /\ o[1] # 0

TruthyStr(o) == o # <<>> /\ o[1] # ""

TruthyBool(o) == o # <<>> /\ o[1]

----------------------------------------------------------------------------
(* Users, listings and the proposal record *)

Clients == {"c1"}

Artists == {"a1"}

(* "u1" is a signed-in user who is party to no proposal *)
Users == Clients \cup Artists \cup {"u1"}

(* The model follows one proposal document from its creation on: every    *)
(* operation but the sweeper addresses a single proposal by its id.        *)
ProposalIds == {1}

Statuses ==
  {"pendingArtist", "pendingClient", "accepted", "rejectedArtist",
   "rejectedClient", "expired", "cancelled", "finalized"}

TerminalStatuses == {"finalized", "cancelled", "rejectedArtist", "expired"}

NonTerminalStatuses == Statuses \ TerminalStatuses

(* The listings the proposals are made against.  A listing carries its     *)
(* artist, the active / deleted flags and the deadline policy: the mode    *)
(* and the turnaround bounds (days) the availability window is built from. *)
Listings ==
  [L1 |-> [artistId |-> "a1", isActive |-> TRUE, isDeleted |-> FALSE,
           mode |-> "withDeadline", minDays |-> 1, maxDays |-> 2],
   L2 |-> [artistId |-> "a1", isActive |-> TRUE, isDeleted |-> FALSE,
           mode |-> "standard", minDays |-> 1, maxDays |-> 2],
   L3 |-> [artistId |-> "a1", isActive |-> TRUE, isDeleted |-> FALSE,
           mode |-> "withRush", minDays |-> 1, maxDays |-> 2],
   L4 |-> [artistId |-> "a1", isActive |-> FALSE, isDeleted |-> FALSE,
           mode |-> "withDeadline", minDays |-> 1, maxDays |-> 2],
   L5 |-> [artistId |-> "a1", isActive |-> TRUE, isDeleted |-> FALSE,
           mode |-> "flexible", minDays |-> 1, maxDays |-> 2],
   L6 |-> [artistId |-> "a1", isActive |-> TRUE, isDeleted |-> TRUE,
           mode |-> "withDeadline", minDays |-> 1, maxDays |-> 2]]

NoListing == [mode |-> "absent"]

NoProposal == [status |-> "absent"]

Exists(p) == p # NoProposal

(* Result of a call: the error class it was rejected with ("none" when it  *)
(* returned normally) and the proposal store it leaves behind.             *)
Ok(store) == [err |-> "none", store |-> store]

Fail(e, store) == [err |-> e, store |-> store]

----------------------------------------------------------------------------
(* Repository transitions (proposal.repository, modelled from spec.md 4.4) *)

getProposalById(store, id) ==
  IF id \in DOMAIN store THEN store[id] ELSE NoProposal

(* artistResponds writing without a look at the stored status *)
artistResponds_noReread(store, id, accepts, adjustment, rejectionReason) ==
  LET p == getProposalById(store, id) IN
  IF ~Exists(p) THEN [err |-> "NotFound", store |-> store]
  ELSE IF ~accepts
  THEN [err |-> "none",
        store |-> [store EXCEPT ![id] =
                     [p EXCEPT !.status = "rejectedArtist",
                               !.rejectionReason = rejectionReason]]]
  ELSE IF adjustment # <<>>
  THEN [err |-> "none",
        store |-> [store EXCEPT ![id] =
                     [p EXCEPT !.status = "pendingClient",
                               !.artistAdjustments = adjustment]]]
  ELSE [err |-> "none",
        store |-> [store EXCEPT ![id] = [p EXCEPT !.status = "accepted"]]]

(* Artist response: reject -> rejectedArtist with the reason; accept with  *)
(* an adjustment -> pendingClient, recording it; accept without ->         *)
(* accepted.  Legal only while the proposal awaits the artist.             *)
artistResponds(store, id, accepts, adjustment, rejectionReason) ==
  LET p == getProposalById(store, id) IN
  IF ~Exists(p) THEN Fail("NotFound", store)
  ELSE IF p.status \notin {"pendingArtist", "rejectedClient"}
  THEN Fail("State", store)
  ELSE IF ~accepts
  THEN Ok([store EXCEPT ![id] =
             [p EXCEPT !.status = "rejectedArtist",
                       !.rejectionReason = rejectionReason]])
  ELSE IF adjustment # <<>>
  THEN Ok([store EXCEPT ![id] =
             [p EXCEPT !.status = "pendingClient",
                       !.artistAdjustments = adjustment]])
  ELSE Ok([store EXCEPT ![id] = [p EXCEPT !.status = "accepted"]])

(* cancelProposal writing whatever the stored status is *)
cancelProposal_anyStatus(store, id, clientId) ==
  LET p == getProposalById(store, id) IN
  IF ~Exists(p) THEN Fail("NotFound", store)
  ELSE IF p.clientId # clientId THEN Fail("Authorization", store)
  ELSE Ok([store EXCEPT ![id] = [p EXCEPT !.status = "cancelled"]])

(* Client cancels: legal from any non-terminal status, by the owner only.  *)
cancelProposal(store, id, clientId) ==
  LET p == getProposalById(store, id) IN
  IF ~Exists(p) THEN Fail("NotFound", store)
  ELSE IF p.clientId # clientId THEN Fail("Authorization", store)
  ELSE IF p.status \in TerminalStatuses THEN Fail("State", store)
  ELSE Ok([store EXCEPT ![id] = [p EXCEPT !.status = "cancelled"]])

(* Client ratifies or rejects the artist's adjustment: legal only from     *)
(* pendingClient.                                                          *)
clientRespondsToAdjustment(store, id, acceptAdjustments, cancel) ==
  LET p == getProposalById(store, id) IN
  IF ~Exists(p) THEN Fail("NotFound", store)
  ELSE IF p.status # "pendingClient" THEN Fail("State", store)
  ELSE IF cancel
  THEN Ok([store EXCEPT ![id] = [p EXCEPT !.status = "cancelled"]])
  ELSE IF TruthyBool(acceptAdjustments)
  THEN Ok([store EXCEPT ![id] = [p EXCEPT !.status = "accepted"]])
  ELSE Ok([store EXCEPT ![id] = [p EXCEPT !.status = "rejectedClient"]])

(* findCommissionListingById (commissionListing.repository) *)
findCommissionListingById(listingId) ==
  IF listingId \in DOMAIN Listings THEN Listings[listingId] ELSE NoListing

(* getLatestActiveContractDeadline (contract.repository): the artist's     *)
(* most recent active-contract deadline, or null (<<>>) when there is none *)
getLatestActiveContractDeadline(deadlines, artistId) == deadlines[artistId]

(* computeDynamicEstimate counting the turnaround from the epoch, whatever *)
(* baseDate is                                                             *)
repoComputeDynamicEstimate_ignoresBaseDate(listing, baseDate) ==
  [earliestDate |-> listing.minDays, latestDate |-> listing.maxDays]

(* computeDynamicEstimate (spec.md 4.1): the window is baseDate plus the   *)
(* listing's turnaround bounds.                                            *)
repoComputeDynamicEstimate(listing, baseDate) ==
  [earliestDate |-> baseDate + listing.minDays,
   latestDate |-> baseDate + listing.maxDays]

(* The repository storing the deadline it is given in every mode *)
storedDeadline_asGiven(listing, deadline, latestDate) == deadline

(* The deadline the repository stores: in mode standard the system         *)
(* deadline latestDate + 2 weeks (spec.md 4.2), otherwise the one given.   *)
storedDeadline(listing, deadline, latestDate) ==
  IF listing.mode = "standard"
  THEN latestDate + StandardDeadlineDays
  ELSE deadline

FreeIds(store) == {i \in DOMAIN store : ~Exists(store[i])}

NextId(store) == CHOOSE i \in FreeIds(store) : \A j \in FreeIds(store) : i <= j

(* createProposal (repository): persists one new proposal in pendingArtist *)
repoCreateProposal(store, today, input) ==
  LET listing == findCommissionListingById(input.listingId) IN
  Ok([store EXCEPT ![NextId(store)] =
        [clientId |-> input.clientId,
         artistId |-> input.artistId,
         listingId |-> input.listingId,
         earliestDate |-> input.earliestDate,
         latestDate |-> input.latestDate,
         deadline |-> storedDeadline(listing, input.deadline,
                                     input.latestDate),
         baseDate |-> input.baseDate[1],
         generalDescription |-> input.generalDescription,
         referenceImages |-> input.referenceImages,
         generalOptions |-> input.generalOptions,
         subjectOptions |-> input.subjectOptions,
         status |-> "pendingArtist",
         artistAdjustments |-> <<>>,
         rejectionReason |-> <<>>,
         expiresAt |-> today + ExpiryDays]])

Patch(old, new) == IF new # <<>> THEN new[1] ELSE old

PatchOpt(old, new) == IF new # <<>> THEN new ELSE old

(* updateProposal (repository): writes the fields present in updates       *)
repoUpdateProposal(store, id, updates) ==
  LET p == getProposalById(store, id)
      listing == findCommissionListingById(p.listingId)
  IN
  IF ~Exists(p) THEN Fail("Internal", store)
  ELSE Ok([store EXCEPT ![id] =
        [p EXCEPT
           !.earliestDate = updates.earliestDate,
           !.latestDate = updates.latestDate,
           !.baseDate = updates.baseDate,
           !.deadline = storedDeadline(listing,
                                       Patch(p.deadline, updates.deadline),
                                       updates.latestDate),
           !.generalDescription =
               Patch(p.generalDescription, updates.generalDescription),
           !.generalOptions =
               PatchOpt(p.generalOptions, updates.generalOptions),
           !.subjectOptions =
               PatchOpt(p.subjectOptions, updates.subjectOptions),
           !.referenceImages =
               Patch(p.referenceImages, updates.referenceImages)]])

(* bulkExpirePending (spec.md 4.4, 4.5): the pending proposals whose       *)
(* expiry threshold has passed as of asOf become expired.                  *)
Expirable(p, asOf) ==
  /\ Exists(p)
  /\ p.status \in {"pendingArtist", "pendingClient"}
  /\ p.expiresAt < asOf

(* bulkExpirePending counting the expired proposals it finds as well *)
bulkExpirePending_countsExpired(store, asOf) ==
  [err |-> "none",
   store |-> [i \in DOMAIN store |->
                IF Expirable(store[i], asOf)
                THEN [store[i] EXCEPT !.status = "expired"]
                ELSE store[i]],
   count |-> Cardinality({i \in DOMAIN store :
                            \/ Expirable(store[i], asOf)
                            \/ /\ Exists(store[i])
                               /\ store[i].status = "expired"
                               /\ store[i].expiresAt < asOf})]

bulkExpirePending(store, asOf) ==
  [err |-> "none",
   store |-> [i \in DOMAIN store |->
                IF Expirable(store[i], asOf)
                THEN [store[i] EXCEPT !.status = "expired"]
                ELSE store[i]],
   count |-> Cardinality({i \in DOMAIN store : Expirable(store[i], asOf)})]

(* expirePending writing expired whatever the stored status is *)
expirePending_noStatusTest(store, id, asOf) ==
  LET p == getProposalById(store, id) IN
  IF Exists(p) /\ p.expiresAt < asOf
  THEN [store |-> [store EXCEPT ![id] = [p EXCEPT !.status = "expired"]],
        moved |-> TRUE]
  ELSE [store |-> store, moved |-> FALSE]

(* The update bulkExpirePending makes on one document (spec.md 4.5: the    *)
(* transition touches only records matching its own precondition): the     *)
(* document becomes expired if it is pending and due when it is written.   *)
expirePending(store, id, asOf) ==
  IF Expirable(getProposalById(store, id), asOf)
  THEN [store |-> [store EXCEPT ![id] = [@ EXCEPT !.status = "expired"]],
        moved |-> TRUE]
  ELSE [store |-> store, moved |-> FALSE]

(* Finalize: legal only from accepted.                                     *)
finalizeAcceptance(store, id) ==
  LET p == getProposalById(store, id) IN
  IF ~Exists(p) THEN Fail("NotFound", store)
  ELSE IF p.status # "accepted" THEN Fail("State", store)
  ELSE Ok([store EXCEPT ![id] = [p EXCEPT !.status = "finalized"]])

----------------------------------------------------------------------------
(* Service operations (proposal.service.ts) *)

(* convertGeneralOptions, proposal.service.ts:129-149: undefined stays     *)
(* undefined, otherwise the option groups, addons and answers are copied.  *)
convertGeneralOptions(options) == options

(* convertSubjectOptions, proposal.service.ts:157-163 *)
convertSubjectOptions(options) == options

(* validateDeadline rejecting a deadline that falls on earliestDate *)
validateDeadline_strict(listing, deadline, earliestDate, latestDate) ==
  CASE listing.mode = "standard" -> "none"
    [] listing.mode = "withDeadline" ->
         IF deadline <= earliestDate THEN "Validation" ELSE "none"
    [] listing.mode = "withRush" -> "none"
    [] OTHER -> "Configuration"

(* validateDeadline, proposal.service.ts:174-205: the error class it       *)
(* throws, "none" when it returns.                                         *)
validateDeadline(listing, deadline, earliestDate, latestDate) ==
  CASE listing.mode = "standard" -> "none"
    [] listing.mode = "withDeadline" ->
         IF deadline < earliestDate THEN "Validation" ELSE "none"
    [] listing.mode = "withRush" -> "none"
    [] OTHER -> "Configuration"

Blank(text) == text \in {"", " "}

(* validateProposalInput, proposal.service.ts:213-233.  baseDate is a Date *)
(* object or undefined, so the last test fails only when it is absent.     *)
validateProposalInput(input) ==
  IF input.earliestDate >= input.latestDate THEN "Validation"
  ELSE IF Blank(input.generalDescription) THEN "Validation"
  ELSE IF input.referenceImages > MaxReferenceImages THEN "Validation"
  ELSE IF input.baseDate = <<>> THEN "Validation"
  ELSE "none"

(* The baseDate expression of proposal.service.ts:280-281, 406-407:        *)
(* (await getLatestActiveContractDeadline(artistId)) || new Date()         *)
baseDateOf(deadlines, artistId, today) ==
  LET latest == getLatestActiveContractDeadline(deadlines, artistId) IN
  IF latest # <<>> THEN latest[1] ELSE today

(* getDynamicEstimate, proposal.service.ts:888-903: the baseDate is        *)
(* latestDeadline ?? new Date().  A plain Error is thrown for a listing    *)
(* that is not found.                                                      *)
getDynamicEstimate(deadlines, today, listingId) ==
  LET listing == findCommissionListingById(listingId) IN
  IF listing = NoListing THEN [err |-> "Internal"]
  ELSE
  LET latestDeadline ==
        getLatestActiveContractDeadline(deadlines, listing.artistId)
      baseDate == IF latestDeadline # <<>> THEN latestDeadline[1] ELSE today
  IN [err |-> "none", baseDate |-> baseDate,
      estimate |-> repoComputeDynamicEstimate(listing, baseDate)]

(* createProposalFromForm overlooking the deleted flag of the listing *)
createProposal_ignoresDeleted(store, today, deadlines, clientId, form) ==
  IF ~form.payload.valid THEN Fail("Validation", store)
  ELSE IF ~TruthyStr(form.listingId) THEN Fail("Validation", store)
  ELSE
  LET listingId == form.listingId[1]
      listing == findCommissionListingById(listingId)
  IN
  IF listing = NoListing THEN Fail("NotFound", store)
  ELSE IF ~listing.isActive THEN Fail("Validation", store)
  ELSE
  LET baseDate == baseDateOf(deadlines, listing.artistId, today)
      estimate == repoComputeDynamicEstimate(listing, baseDate)
  IN
  IF form.deadline = <<>> THEN Fail("Validation", store)
  ELSE
  LET deadline == form.deadline[1]
      deadlineError == validateDeadline(listing, deadline,
                         estimate.earliestDate, estimate.latestDate)
  IN
  IF deadlineError # "none" THEN Fail(deadlineError, store)
  ELSE IF ~TruthyStr(form.generalDescription) THEN Fail("Validation", store)
  ELSE IF form.uploadFails THEN Fail("Upload", store)
  ELSE
  LET proposalInput ==
        [clientId |-> clientId,
         artistId |-> listing.artistId,
         listingId |-> listingId,
         earliestDate |-> estimate.earliestDate,
         latestDate |-> estimate.latestDate,
         deadline |-> deadline,
         baseDate |-> <<baseDate>>,
         generalDescription |-> form.generalDescription[1],
         referenceImages |-> form.referenceBlobs,
         generalOptions |-> convertGeneralOptions(form.payload.generalOptions),
         subjectOptions |-> convertSubjectOptions(form.payload.subjectOptions)]
      inputError == validateProposalInput(proposalInput)
  IN
  IF inputError # "none" THEN Fail(inputError, store)
  ELSE repoCreateProposal(store, today, proposalInput)

(* createProposalFromForm, proposal.service.ts:247-352 *)
createProposalFromForm(store, today, deadlines, clientId, form) ==
  IF ~form.payload.valid THEN Fail("Validation", store)
  ELSE IF ~TruthyStr(form.listingId) THEN Fail("Validation", store)
  ELSE
  LET listingId == form.listingId[1]
      listing == findCommissionListingById(listingId)
  IN
  IF listing = NoListing THEN Fail("NotFound", store)
  ELSE IF ~listing.isActive \/ listing.isDeleted
  THEN Fail("Validation", store)
  ELSE
  LET baseDate == baseDateOf(deadlines, listing.artistId, today)
      estimate == repoComputeDynamicEstimate(listing, baseDate)
  IN
  IF form.deadline = <<>> THEN Fail("Validation", store)
  ELSE
  LET deadline == form.deadline[1]
      deadlineError == validateDeadline(listing, deadline,
                         estimate.earliestDate, estimate.latestDate)
  IN
  IF deadlineError # "none" THEN Fail(deadlineError, store)
  ELSE IF ~TruthyStr(form.generalDescription) THEN Fail("Validation", store)
  ELSE IF form.uploadFails THEN Fail("Upload", store)
  ELSE
  LET proposalInput ==
        [clientId |-> clientId,
         artistId |-> listing.artistId,
         listingId |-> listingId,
         earliestDate |-> estimate.earliestDate,
         latestDate |-> estimate.latestDate,
         deadline |-> deadline,
         baseDate |-> <<baseDate>>,
         generalDescription |-> form.generalDescription[1],
         referenceImages |-> form.referenceBlobs,
         generalOptions |-> convertGeneralOptions(form.payload.generalOptions),
         subjectOptions |-> convertSubjectOptions(form.payload.subjectOptions)]
      inputError == validateProposalInput(proposalInput)
  IN
  IF inputError # "none" THEN Fail(inputError, store)
  ELSE repoCreateProposal(store, today, proposalInput)

(* updateProposalFromForm without the test of the status *)
updateProposal_anyStatus(store, today, deadlines, proposalId, userId, form) ==
  LET existing == getProposalById(store, proposalId) IN
  IF ~Exists(existing) THEN Fail("NotFound", store)
  ELSE IF existing.clientId # userId THEN Fail("Authorization", store)
  ELSE IF ~form.payload.valid THEN Fail("Validation", store)
  ELSE
  LET listing == findCommissionListingById(existing.listingId) IN
  IF listing = NoListing THEN Fail("NotFound", store)
  ELSE
  LET baseDate == baseDateOf(deadlines, listing.artistId, today)
      estimate == repoComputeDynamicEstimate(listing, baseDate)
      deadlineError ==
        IF form.deadline # <<>>
        THEN validateDeadline(listing, form.deadline[1],
                              estimate.earliestDate, estimate.latestDate)
        ELSE "none"
      imagesSubmitted == form.existingReferences > 0 \/ form.referenceBlobs > 0
      updates ==
        [earliestDate |-> estimate.earliestDate,
         latestDate |-> estimate.latestDate,
         baseDate |-> baseDate,
         deadline |-> form.deadline,
         generalDescription |->
           IF TruthyStr(form.generalDescription)
           THEN form.generalDescription ELSE <<>>,
         generalOptions |-> convertGeneralOptions(form.payload.generalOptions),
         subjectOptions |-> convertSubjectOptions(form.payload.subjectOptions),
         referenceImages |->
           IF imagesSubmitted
           THEN <<form.existingReferences + form.referenceBlobs>>
           ELSE <<>>]
  IN
  IF deadlineError # "none" THEN Fail(deadlineError, store)
  ELSE IF form.referenceBlobs > 0 /\ form.uploadFails
  THEN Fail("Upload", store)
  ELSE repoUpdateProposal(store, proposalId, updates)

(* updateProposalFromForm, proposal.service.ts:363-487 *)
updateProposalFromForm(store, today, deadlines, proposalId, userId, form) ==
  LET existing == getProposalById(store, proposalId) IN
  IF ~Exists(existing) THEN Fail("NotFound", store)
  ELSE IF existing.clientId # userId THEN Fail("Authorization", store)
  ELSE IF existing.status # "pendingArtist" THEN Fail("State", store)
  ELSE IF ~form.payload.valid THEN Fail("Validation", store)
  ELSE
  LET listing == findCommissionListingById(existing.listingId) IN
  IF listing = NoListing THEN Fail("NotFound", store)
  ELSE
  LET baseDate == baseDateOf(deadlines, listing.artistId, today)
      estimate == repoComputeDynamicEstimate(listing, baseDate)
      deadlineError ==
        IF form.deadline # <<>>
        THEN validateDeadline(listing, form.deadline[1],
                              estimate.earliestDate, estimate.latestDate)
        ELSE "none"
      imagesSubmitted == form.existingReferences > 0 \/ form.referenceBlobs > 0
      updates ==
        [earliestDate |-> estimate.earliestDate,
         latestDate |-> estimate.latestDate,
         baseDate |-> baseDate,
         deadline |-> form.deadline,
         generalDescription |->
           IF TruthyStr(form.generalDescription)
           THEN form.generalDescription ELSE <<>>,
         generalOptions |-> convertGeneralOptions(form.payload.generalOptions),
         subjectOptions |-> convertSubjectOptions(form.payload.subjectOptions),
         referenceImages |->
           IF imagesSubmitted
           THEN <<form.existingReferences + form.referenceBlobs>>
           ELSE <<>>]
  IN
  IF deadlineError # "none" THEN Fail(deadlineError, store)
  ELSE IF form.referenceBlobs > 0 /\ form.uploadFails
  THEN Fail("Upload", store)
  ELSE repoUpdateProposal(store, proposalId, updates)

(* expireOldProposals sweeping as of the current date whatever asOf is *)
expireOldProposals_ignoresAsOf(store, asOf) == bulkExpirePending(store, now)

(* expireOldProposals, proposal.service.ts:828-838 *)
(* expireOldProposals sweeping as of the date the process started *)
expireOldProposals_asOfStart(store, asOf) == bulkExpirePending(store, 0)

expireOldProposals(store, asOf) == bulkExpirePending(store, asOf)

(* artistRespond awaiting the artist only in pendingArtist *)
artistRespond_narrow(store, today, artistId, proposalId, decision) ==
  LET proposal == getProposalById(store, proposalId) IN
  IF ~Exists(proposal) THEN Fail("NotFound", store)
  ELSE IF proposal.artistId # artistId THEN Fail("Authorization", store)
  ELSE IF ~decision.acceptProposal
  THEN IF ~TruthyStr(decision.rejectionReason)
       THEN Fail("Validation", store)
       ELSE artistResponds(store, proposalId, FALSE, <<>>,
                           decision.rejectionReason)
  ELSE IF proposal.status = "pendingArtist"
  THEN LET adjustment ==
             IF TruthyNum(decision.surcharge) \/ TruthyNum(decision.discount)
             THEN <<[proposedSurcharge |-> decision.surcharge,
                     proposedDiscount |-> decision.discount,
                     proposedDate |-> today]>>
             ELSE <<>>
       IN artistResponds(store, proposalId, TRUE, adjustment, <<>>)
  ELSE Fail("State", store)

(* artistRespond looking at the surcharge only *)
artistRespond_surchargeOnly(store, today, artistId, proposalId, decision) ==
  LET proposal == getProposalById(store, proposalId) IN
  IF ~Exists(proposal) THEN Fail("NotFound", store)
  ELSE IF proposal.artistId # artistId THEN Fail("Authorization", store)
  ELSE IF ~decision.acceptProposal
  THEN IF ~TruthyStr(decision.rejectionReason)
       THEN Fail("Validation", store)
       ELSE artistResponds(store, proposalId, FALSE, <<>>,
                           decision.rejectionReason)
  ELSE IF proposal.status = "pendingArtist"
          \/ proposal.status = "rejectedClient"
  THEN LET adjustment ==
             IF TruthyNum(decision.surcharge)
             THEN <<[proposedSurcharge |-> decision.surcharge,
                     proposedDiscount |-> decision.discount,
                     proposedDate |-> today]>>
             ELSE <<>>
       IN artistResponds(store, proposalId, TRUE, adjustment, <<>>)
  ELSE Fail("State", store)

(* artistRespond without the test for a rejection reason *)
artistRespond_noReasonCheck(store, today, artistId, proposalId, decision) ==
  LET proposal == getProposalById(store, proposalId) IN
  IF ~Exists(proposal) THEN Fail("NotFound", store)
  ELSE IF proposal.artistId # artistId THEN Fail("Authorization", store)
  ELSE IF ~decision.acceptProposal
  THEN artistResponds(store, proposalId, FALSE, <<>>,
                      decision.rejectionReason)
  ELSE IF proposal.status = "pendingArtist"
          \/ proposal.status = "rejectedClient"
  THEN LET adjustment ==
             IF TruthyNum(decision.surcharge) \/ TruthyNum(decision.discount)
             THEN <<[proposedSurcharge |-> decision.surcharge,
                     proposedDiscount |-> decision.discount,
                     proposedDate |-> today]>>
             ELSE <<>>
       IN artistResponds(store, proposalId, TRUE, adjustment, <<>>)
  ELSE Fail("State", store)

(* artistRespond, proposal.service.ts:502-562 *)
artistRespond(store, today, artistId, proposalId, decision) ==
  LET proposal == getProposalById(store, proposalId) IN
  IF ~Exists(proposal) THEN Fail("NotFound", store)
  ELSE IF proposal.artistId # artistId THEN Fail("Authorization", store)
  ELSE IF ~decision.acceptProposal
  THEN IF ~TruthyStr(decision.rejectionReason)
       THEN Fail("Validation", store)
       ELSE artistResponds(store, proposalId, FALSE, <<>>,
                           decision.rejectionReason)
  ELSE IF proposal.status = "pendingArtist"
          \/ proposal.status = "rejectedClient"
  THEN LET adjustment ==
             IF TruthyNum(decision.surcharge) \/ TruthyNum(decision.discount)
             THEN <<[proposedSurcharge |-> decision.surcharge,
                     proposedDiscount |-> decision.discount,
                     proposedDate |-> today]>>
             ELSE <<>>
       IN artistResponds(store, proposalId, TRUE, adjustment, <<>>)
  ELSE Fail("State", store)

(* artistRespond up to its call of the repository, proposal.service.ts:    *)
(* 516-545: the error it throws on the proposal it has read.               *)
artistRespondGuard(store, artistId, proposalId, decision) ==
  LET proposal == getProposalById(store, proposalId) IN
  IF ~Exists(proposal) THEN "NotFound"
  ELSE IF proposal.artistId # artistId THEN "Authorization"
  ELSE IF ~decision.acceptProposal
  THEN IF ~TruthyStr(decision.rejectionReason) THEN "Validation" ELSE "none"
  ELSE IF proposal.status = "pendingArtist"
          \/ proposal.status = "rejectedClient"
  THEN "none"
  ELSE "State"

(* artistRespond from its call of the repository on, proposal.service.ts:  *)
(* 532-553; today is the new Date() taken for the adjustment.              *)
artistRespondWrite(store, today, proposalId, decision) ==
  IF ~decision.acceptProposal
  THEN artistResponds(store, proposalId, FALSE, <<>>,
                      decision.rejectionReason)
  ELSE LET adjustment ==
             IF TruthyNum(decision.surcharge) \/ TruthyNum(decision.discount)
             THEN <<[proposedSurcharge |-> decision.surcharge,
                     proposedDiscount |-> decision.discount,
                     proposedDate |-> today]>>
             ELSE <<>>
       IN artistResponds(store, proposalId, TRUE, adjustment, <<>>)

(* clientRespond testing the status before the cancellation *)
clientRespond_statusFirst(store, clientId, proposalId, decision) ==
  LET proposal == getProposalById(store, proposalId) IN
  IF ~Exists(proposal) THEN Fail("NotFound", store)
  ELSE IF proposal.clientId # clientId THEN Fail("Authorization", store)
  ELSE IF proposal.status # "pendingClient" THEN Fail("State", store)
  ELSE IF TruthyBool(decision.cancel)
  THEN cancelProposal(store, proposalId, clientId)
  ELSE clientRespondsToAdjustment(store, proposalId,
                                  decision.acceptAdjustments, FALSE)

(* clientRespond passing the cancel flag in place of the ratification *)
clientRespond_wrongFlag(store, clientId, proposalId, decision) ==
  LET proposal == getProposalById(store, proposalId) IN
  IF ~Exists(proposal) THEN Fail("NotFound", store)
  ELSE IF proposal.clientId # clientId THEN Fail("Authorization", store)
  ELSE IF TruthyBool(decision.cancel)
  THEN cancelProposal(store, proposalId, clientId)
  ELSE IF proposal.status # "pendingClient" THEN Fail("State", store)
  ELSE clientRespondsToAdjustment(store, proposalId, decision.cancel, FALSE)

(* clientRespond, proposal.service.ts:573-609 *)
clientRespond(store, clientId, proposalId, decision) ==
  LET proposal == getProposalById(store, proposalId) IN
  IF ~Exists(proposal) THEN Fail("NotFound", store)
  ELSE IF proposal.clientId # clientId THEN Fail("Authorization", store)
  ELSE IF TruthyBool(decision.cancel)
  THEN cancelProposal(store, proposalId, clientId)
  ELSE IF proposal.status # "pendingClient" THEN Fail("State", store)
  ELSE clientRespondsToAdjustment(store, proposalId,
                                  decision.acceptAdjustments, FALSE)

(* clientRespond up to its call of the repository, proposal.service.ts:    *)
(* 581-598                                                                 *)
clientRespondGuard(store, clientId, proposalId, decision) ==
  LET proposal == getProposalById(store, proposalId) IN
  IF ~Exists(proposal) THEN "NotFound"
  ELSE IF proposal.clientId # clientId THEN "Authorization"
  ELSE IF TruthyBool(decision.cancel) THEN "none"
  ELSE IF proposal.status # "pendingClient" THEN "State"
  ELSE "none"

(* clientRespond from its call of the repository on, proposal.service.ts:  *)
(* 591-604                                                                 *)
clientRespondWrite(store, clientId, proposalId, decision) ==
  IF TruthyBool(decision.cancel)
  THEN cancelProposal(store, proposalId, clientId)
  ELSE clientRespondsToAdjustment(store, proposalId,
                                  decision.acceptAdjustments, FALSE)

(* canRespondToProposal, proposal.service.ts:764-788 *)
canRespondToProposal(store, proposalId, userId, role) ==
  LET proposal == getProposalById(store, proposalId) IN
  IF ~Exists(proposal) THEN FALSE
  ELSE IF role = "artist"
  THEN proposal.artistId = userId /\ proposal.status = "pendingArtist"
  ELSE proposal.clientId = userId /\ proposal.status = "pendingClient"

(* finalizeProposal up to its call of the repository, proposal.service.ts: *)
(* 805-812                                                                 *)
finalizeProposalGuard(store, proposalId) ==
  LET proposal == getProposalById(store, proposalId) IN
  IF ~Exists(proposal) THEN "NotFound"
  ELSE IF proposal.status # "accepted" THEN "State"
  ELSE "none"

(* finalizeProposal with the status test inverted *)
finalizeProposal_inverted(store, proposalId) ==
  LET proposal == getProposalById(store, proposalId) IN
  IF ~Exists(proposal) THEN Fail("NotFound", store)
  ELSE IF proposal.status = "accepted" THEN Fail("State", store)
  ELSE finalizeAcceptance(store, proposalId)

(* finalizeProposal, proposal.service.ts:801-819 *)
finalizeProposal(store, proposalId) ==
  LET proposal == getProposalById(store, proposalId) IN
  IF ~Exists(proposal) THEN Fail("NotFound", store)
  ELSE IF proposal.status # "accepted" THEN Fail("State", store)
  ELSE finalizeAcceptance(store, proposalId)

----------------------------------------------------------------------------
(* Listing payloads (commissionListing.service.ts).  A payload carries an  *)
(* optional basePrice, optional milestones, optional generalOptions        *)
(* {optionGroups?, addons?, questions?} and optional subjectOptions, a     *)
(* list of {id?, optionGroups?, addons?, questions?}.  A group is          *)
(* {id?, selections}; selections and addons are lists of {id?, price}.     *)

RECURSIVE sumPrices(_)
sumPrices(items) ==
  IF items = <<>> THEN 0
  ELSE items[1].price + sumPrices(Tail(items))

RECURSIVE minPrice(_)
minPrice(items) ==
  IF Len(items) = 1 THEN items[1].price
  ELSE LET rest == minPrice(Tail(items)) IN
       IF items[1].price < rest THEN items[1].price ELSE rest

(* addPrices, commissionListing.service.ts:90-95: nothing for a missing or *)
(* empty list, otherwise min grows by the cheapest price and max by the    *)
(* sum of the prices.  range is the pair {min, max} the closure updates.   *)
addPrices(range, items) ==
  IF items = <<>> \/ items[1] = <<>> THEN range
  ELSE [min |-> range.min + minPrice(items[1]),
        max |-> range.max + sumPrices(items[1])]

(* optionGroups?.forEach((group) => addPrices(group.selections)) *)
RECURSIVE addGroups(_, _)
addGroups(range, groups) ==
  IF groups = <<>> THEN range
  ELSE addGroups(addPrices(range, <<groups[1].selections>>), Tail(groups))

addOptions(range, options) ==
  addPrices(IF options.optionGroups # <<>>
            THEN addGroups(range, options.optionGroups[1])
            ELSE range,
            options.addons)

(* subjectOptions?.forEach(...), commissionListing.service.ts:104-107 *)
RECURSIVE addSubjects(_, _)
addSubjects(range, subjects) ==
  IF subjects = <<>> THEN range
  ELSE addSubjects(addOptions(range, subjects[1]), Tail(subjects))

(* computePriceRange starting max at 0 in place of the base price *)
computePriceRange_maxFromZero(input) ==
  LET base == IF input.basePrice # <<>> THEN input.basePrice[1] ELSE 0
      start == [min |-> base, max |-> 0]
      general == IF input.generalOptions # <<>>
                 THEN addOptions(start, input.generalOptions[1])
                 ELSE start
  IN IF input.subjectOptions # <<>>
     THEN addSubjects(general, input.subjectOptions[1])
     ELSE general

(* computePriceRange, commissionListing.service.ts:86-110 *)
computePriceRange(input) ==
  LET base == IF input.basePrice # <<>> THEN input.basePrice[1] ELSE 0
      start == [min |-> base, max |-> base]
      general == IF input.generalOptions # <<>>
                 THEN addOptions(start, input.generalOptions[1])
                 ELSE start
  IN IF input.subjectOptions # <<>>
     THEN addSubjects(general, input.subjectOptions[1])
     ELSE general

(* generateIds numbering every item by its place, an id it carries or not *)
generateIds_renumbersAll(items) ==
  [k \in DOMAIN items |-> [items[k] EXCEPT !.id = <<k>>]]

(* generateIds, commissionListing.service.ts:53-61, with startId = 1: an   *)
(* item keeps its id, an item without one gets 1 + its index.              *)
generateIds(items) ==
  [k \in DOMAIN items |->
     [items[k] EXCEPT !.id = IF @ # <<>> THEN @ ELSE <<k>>]]

(* A question as submitted is a JavaScript value: type is its typeof, and  *)
(* the value of an object is the record of its own fields.  String(q) of   *)
(* commissionListing.service.ts:266:                                       *)
StringOf(q) ==
  CASE q.type = "string" -> q.value
    [] q.type = "boolean" -> IF q.value THEN "true" ELSE "false"
    [] OTHER -> "[object Object]"

QuestionObject(id, text) ==
  [type |-> "object", value |-> [id |-> id, text |-> text]]

(* The map over the questions, commissionListing.service.ts:249-267 and    *)
(* 300-318; k is idx + 1.                                                  *)
convertQuestion(q, k) ==
  IF q.type = "string" THEN QuestionObject(k, q.value)
  ELSE IF q.type = "object" /\ "title" \in DOMAIN q.value
  THEN QuestionObject(k, q.value.title)
  ELSE IF q.type = "object" /\ "label" \in DOMAIN q.value
  THEN QuestionObject(IF "id" \in DOMAIN q.value THEN q.value.id ELSE k,
                      q.value.label)
  ELSE QuestionObject(k, StringOf(q))

(* One options object (the general options or a subject), lines 230-271    *)
(* and 277-320: ids for the groups and their selections, for the addons,   *)
(* and the questions in {id, text} form.                                   *)
processOptions(options) ==
  [options EXCEPT
     !.optionGroups =
        IF @ = <<>> THEN @
        ELSE <<[g \in DOMAIN @[1] |->
                  [generateIds(@[1])[g] EXCEPT
                     !.selections = generateIds(@)]]>>,
     !.addons = IF @ = <<>> THEN @ ELSE <<generateIds(@[1])>>,
     !.questions =
        IF @ = <<>> THEN @
        ELSE <<[k \in DOMAIN @[1] |-> convertQuestion(@[1][k], k)]>>]

(* processPayloadWithIds, commissionListing.service.ts:219-324 *)
processPayloadWithIds(payload) ==
  [payload EXCEPT
     !.milestones = IF @ = <<>> THEN @ ELSE <<generateIds(@[1])>>,
     !.generalOptions = IF @ = <<>> THEN @ ELSE <<processOptions(@[1])>>,
     !.subjectOptions =
        IF @ = <<>> THEN @
        ELSE <<[s \in DOMAIN @[1] |->
                  processOptions(generateIds(@[1])[s])]>>]

----------------------------------------------------------------------------
(* Listing operations (commissionListing.service.ts).  A field of a        *)
(* listing payload is absent (<<>>) or present (<<value>>); slots, the one *)
(* field whose null the service is documented to accept, is null or a      *)
(* number when present.  The persistence functions createCommissionListing *)
(* and updateCommissionListingComponents are not part of the source tree   *)
(* and are modelled from spec.md 3.                                        *)

Null == [type |-> "null"]

Num(n) == [type |-> "number", value |-> n]

(* The fields of CommissionListingPayload the model follows *)
PayloadFields ==
  {"title", "type", "flow", "deadline", "basePrice", "cancelationFee",
   "slots", "revisions", "milestones", "generalOptions", "subjectOptions"}

(* sanitizePayload, commissionListing.service.ts:118-150: the allowed      *)
(* fields the raw payload carries and nothing else.                        *)
sanitizePayload(rawPayload) ==
  [field \in PayloadFields |->
     IF field \in DOMAIN rawPayload THEN rawPayload[field] ELSE <<>>]

RequiredFields ==
  {"title", "type", "flow", "artistId", "thumbnailIdx", "samples",
   "deadline", "basePrice", "cancelationFee"}

RECURSIVE sumPercent(_)
sumPercent(milestones) ==
  IF milestones = <<>> THEN 0
  ELSE milestones[1].percent + sumPercent(Tail(milestones))

(* validateListingPayload accepting a listing of milestone flow that has   *)
(* no milestones                                                           *)
validateListingPayload_noMilestonesNeeded(payload) ==
  IF \E field \in RequiredFields :
       field \notin DOMAIN payload \/ payload[field] = <<>>
  THEN "Validation"
  ELSE IF /\ payload.milestones # <<>>
          /\ Len(payload.milestones[1]) > 0
          /\ sumPercent(payload.milestones[1]) # 100
  THEN "Validation"
  ELSE IF payload.flow = <<"standard">> /\ payload.revisions = <<"milestone">>
  THEN "Validation"
  ELSE IF payload.slots = <<Num(0)>> THEN "Validation"
  ELSE "none"

(* validateListingPayload, commissionListing.service.ts:158-211: the error *)
(* class it throws (every HttpError here has the default status 400),      *)
(* "none" when it returns.                                                 *)
validateListingPayload(payload) ==
  IF \E field \in RequiredFields :
       field \notin DOMAIN payload \/ payload[field] = <<>>
  THEN "Validation"
  ELSE IF /\ payload.flow = <<"milestone">>
          /\ (payload.milestones = <<>> \/ payload.milestones[1] = <<>>)
  THEN "Validation"
  ELSE IF /\ payload.milestones # <<>>
          /\ Len(payload.milestones[1]) > 0
          /\ sumPercent(payload.milestones[1]) # 100
  THEN "Validation"
  ELSE IF payload.flow = <<"standard">> /\ payload.revisions = <<"milestone">>
  THEN "Validation"
  ELSE IF payload.slots = <<Num(0)>> THEN "Validation"
  ELSE "none"

StoredListingIds == {1}

findStoredListing(store, listingId) ==
  IF listingId \in DOMAIN store THEN store[listingId] ELSE NoListing

(* { ...existing, ...processed }: a field the second object carries        *)
(* replaces the field of the first.                                        *)
Spread(existing, processed) ==
  [field \in DOMAIN existing \cup DOMAIN processed |->
     IF field \in DOMAIN processed /\ processed[field] # <<>>
     THEN processed[field]
     ELSE IF field \in DOMAIN existing THEN existing[field] ELSE <<>>]

FreeListingIds(store) == {i \in DOMAIN store : store[i] = NoListing}

(* createCommissionListing (repository): persists one new listing, active  *)
(* and not deleted, with no slot used.                                     *)
createCommissionListing(store, payload) ==
  LET id == CHOOSE i \in FreeListingIds(store) :
              \A j \in FreeListingIds(store) : i <= j
  IN Ok([store EXCEPT ![id] =
           payload @@ [isActive |-> TRUE, isDeleted |-> FALSE,
                       slotsUsed |-> 0]])

(* updateCommissionListingComponents (repository): writes the fields the   *)
(* update carries.                                                         *)
updateCommissionListingComponents(store, listingId, updates) ==
  IF findStoredListing(store, listingId) = NoListing
  THEN Fail("NotFound", store)
  ELSE Ok([store EXCEPT ![listingId] = Spread(@, updates)])

(* createListingFromForm persisting the listing before it validates it *)
createListingFromForm_persistsFirst(store, artistId, form) ==
  IF ~form.payloadParses THEN Fail("Validation", store)
  ELSE IF \E field \in {"title", "type", "flow"} : ~TruthyStr(form[field])
  THEN Fail("Validation", store)
  ELSE
  LET jsonPayload == sanitizePayload(form.payload)
      basePrice == IF form.basePrice # <<>> THEN form.basePrice[1] ELSE 0
      thumbnailIdx == IF form.thumbnailIdx # <<>> THEN form.thumbnailIdx[1]
                      ELSE 0
      listingData ==
        [jsonPayload EXCEPT !.title = form.title, !.type = form.type,
                            !.flow = form.flow, !.basePrice = <<basePrice>>]
        @@ [artistId |-> <<artistId>>, samples |-> <<form.samples>>,
            thumbnailIdx |-> <<thumbnailIdx>>]
      processedData == processPayloadWithIds(listingData)
      price == computePriceRange(processedData)
      error == validateListingPayload(processedData)
      created == createCommissionListing(
                   store, processedData @@ [price |-> <<price>>])
  IN
  IF form.uploadFails THEN Fail("Upload", store)
  ELSE IF thumbnailIdx < 0 \/ thumbnailIdx >= form.samples
  THEN Fail("Validation", store)
  ELSE IF error # "none" THEN Fail(error, created.store)
  ELSE created

(* createListingFromForm, commissionListing.service.ts:339-424.  The       *)
(* default terms of service and the description play no part in the checks *)
(* and are left out; form.samples is the number of sample blobs.           *)
createListingFromForm(store, artistId, form) ==
  IF ~form.payloadParses THEN Fail("Validation", store)
  ELSE IF \E field \in {"title", "type", "flow"} : ~TruthyStr(form[field])
  THEN Fail("Validation", store)
  ELSE
  LET jsonPayload == sanitizePayload(form.payload)
      basePrice == IF form.basePrice # <<>> THEN form.basePrice[1] ELSE 0
      thumbnailIdx == IF form.thumbnailIdx # <<>> THEN form.thumbnailIdx[1]
                      ELSE 0
      listingData ==
        [jsonPayload EXCEPT !.title = form.title, !.type = form.type,
                            !.flow = form.flow, !.basePrice = <<basePrice>>]
        @@ [artistId |-> <<artistId>>, samples |-> <<form.samples>>,
            thumbnailIdx |-> <<thumbnailIdx>>]
      processedData == processPayloadWithIds(listingData)
      price == computePriceRange(processedData)
      error == validateListingPayload(processedData)
  IN
  IF form.uploadFails THEN Fail("Upload", store)
  ELSE IF thumbnailIdx < 0 \/ thumbnailIdx >= form.samples
  THEN Fail("Validation", store)
  ELSE IF error # "none" THEN Fail(error, store)
  ELSE createCommissionListing(store, processedData @@ [price |-> <<price>>])

(* updateListing, commissionListing.service.ts:545-580 *)
updateListing(store, artistId, listingId, updates) ==
  LET existing == findStoredListing(store, listingId) IN
  IF existing = NoListing THEN Fail("NotFound", store)
  ELSE IF existing.artistId # <<artistId>> THEN Fail("Authorization", store)
  ELSE
  LET sanitized == sanitizePayload(updates)
      processedData == processPayloadWithIds(sanitized)
      merged == Spread(existing, processedData)
      error == validateListingPayload(merged)
      price == computePriceRange(merged)
  IN
  IF error # "none" THEN Fail(error, store)
  ELSE updateCommissionListingComponents(
         store, listingId, processedData @@ [price |-> <<price>>])

(* updateListingFromForm, commissionListing.service.ts:436-534: a form     *)
(* field that is missing falls back to the stored value; the samples are   *)
(* rebuilt when the form names kept samples or carries new blobs.          *)
updateListingFromForm(store, artistId, listingId, form) ==
  LET existing == findStoredListing(store, listingId) IN
  IF existing = NoListing THEN Fail("NotFound", store)
  ELSE IF existing.artistId # <<artistId>> THEN Fail("Authorization", store)
  ELSE IF ~form.payloadParses THEN Fail("Validation", store)
  ELSE
  LET jsonPayload == sanitizePayload(form.payload)
      Or(value, fallback) == IF TruthyStr(value) THEN value ELSE fallback
      rebuilt == form.existingSamples > 0 \/ form.samples > 0
      samples == form.existingSamples + form.samples
      thumbnailIdx == IF form.thumbnailIdx # <<>> THEN form.thumbnailIdx[1]
                      ELSE 0
      listingData ==
        [jsonPayload EXCEPT
           !.title = Or(form.title, existing.title),
           !.type = Or(form.type, existing.type),
           !.flow = Or(form.flow, existing.flow),
           !.basePrice = IF form.basePrice # <<>> THEN form.basePrice
                         ELSE existing.basePrice]
        @@ [artistId |-> <<artistId>>,
            samples |-> IF rebuilt THEN <<samples>> ELSE existing.samples,
            thumbnailIdx |-> IF rebuilt THEN <<thumbnailIdx>>
                             ELSE existing.thumbnailIdx]
      processedData == processPayloadWithIds(listingData)
      merged == Spread(existing, processedData)
      error == validateListingPayload(merged)
      price == computePriceRange(merged)
  IN
  IF rebuilt /\ form.samples > 0 /\ form.uploadFails
  THEN Fail("Upload", store)
  ELSE IF rebuilt /\ (thumbnailIdx < 0 \/ thumbnailIdx >= samples)
  THEN Fail("Validation", store)
  ELSE IF error # "none" THEN Fail(error, store)
  ELSE updateCommissionListingComponents(
         store, listingId, processedData @@ [price |-> <<price>>])

----------------------------------------------------------------------------
(* Inputs of the calls *)

(* The ids a caller may name: the proposal's, and one that resolves to no  *)
(* proposal.                                                               *)
CallIds == ProposalIds \cup {2}

Dates == 0..MaxDeadline

ArtistDecisions ==
  [acceptProposal : {FALSE}, surcharge : {<<>>}, discount : {<<>>},
   rejectionReason : {<<>>, <<"">>, <<"not now">>}]
  \cup
  [acceptProposal : {TRUE}, surcharge : {<<>>, <<0>>, <<5>>},
   discount : {<<>>, <<0>>, <<5>>}, rejectionReason : {<<>>}]

ClientDecisions ==
  [cancel : {<<>>, <<FALSE>>, <<TRUE>>},
   acceptAdjustments : {<<>>, <<FALSE>>, <<TRUE>>}]

Payloads ==
  {[valid |-> FALSE, generalOptions |-> <<>>, subjectOptions |-> <<>>],
   [valid |-> TRUE, generalOptions |-> <<>>, subjectOptions |-> <<>>],
   [valid |-> TRUE, generalOptions |-> <<"g1">>, subjectOptions |-> <<"s1">>]}

(* Inputs of the negotiation runs: one well-formed proposal form against   *)
(* the withDeadline listing and one against the inactive listing, and an   *)
(* edit of the description.                                                *)
BasicCreateForms ==
  [payload : {[valid |-> TRUE, generalOptions |-> <<>>,
               subjectOptions |-> <<>>]},
   listingId : {<<"L1">>, <<"L4">>},
   deadline : {<<MaxDeadline>>},
   generalDescription : {<<"d1">>},
   referenceBlobs : {0},
   uploadFails : {FALSE}]

BasicUpdateForms ==
  [payload : {[valid |-> TRUE, generalOptions |-> <<>>,
               subjectOptions |-> <<>>]},
   deadline : {<<>>},
   generalDescription : {<<"d2">>},
   existingReferences : {0},
   referenceBlobs : {0},
   uploadFails : {FALSE}]

(* Inputs of the editing runs: proposals against the withDeadline listing  *)
(* with every deadline, edits of every field, and the responses that take  *)
(* a proposal out of pendingArtist.                                        *)
EditCreateForms ==
  [payload : {[valid |-> TRUE, generalOptions |-> <<>>,
               subjectOptions |-> <<>>]},
   listingId : {<<"L1">>},
   deadline : Opt(Dates),
   generalDescription : {<<"d1">>},
   referenceBlobs : {0},
   uploadFails : {FALSE}]

(* <<kept existing references, new blobs, whether the upload fails>> *)
ImageInputs == {<<0, 0, FALSE>>, <<1, 1, FALSE>>, <<0, 1, TRUE>>}

EditUpdateForms ==
  [payload : {[valid |-> TRUE, generalOptions |-> <<>>,
               subjectOptions |-> <<>>]},
   deadline : Opt(Dates),
   generalDescription : {<<>>, <<"d2">>},
   existingReferences : {0},
   referenceBlobs : {0},
   uploadFails : {FALSE}]
  \cup
  {[payload |-> payload, deadline |-> <<>>, generalDescription |-> <<>>,
    existingReferences |-> images[1], referenceBlobs |-> images[2],
    uploadFails |-> images[3]] :
     payload \in Payloads, images \in ImageInputs}

EditArtistDecisions ==
  {[acceptProposal |-> TRUE, surcharge |-> <<>>, discount |-> <<>>,
    rejectionReason |-> <<>>]}

EditClientDecisions ==
  {[cancel |-> <<TRUE>>, acceptAdjustments |-> <<>>]}

(* Inputs of the reference-image runs: proposals with no image, with the   *)
(* most images allowed and with one more, and edits that keep some of the  *)
(* stored references and add new images.                                   *)
ImageCreateForms ==
  [payload : {[valid |-> TRUE, generalOptions |-> <<>>,
               subjectOptions |-> <<>>]},
   listingId : {<<"L1">>},
   deadline : {<<MaxDeadline>>},
   generalDescription : {<<"d1">>},
   referenceBlobs : {0, 1, MaxReferenceImages, MaxReferenceImages + 1},
   uploadFails : {FALSE, TRUE}]

ImageUpdateForms ==
  [payload : {[valid |-> TRUE, generalOptions |-> <<>>,
               subjectOptions |-> <<>>]},
   deadline : {<<>>},
   generalDescription : {<<>>},
   existingReferences : 0..MaxReferenceImages,
   referenceBlobs : {0, 1, 2},
   uploadFails : {FALSE, TRUE}]

(* Inputs of the deadline-policy runs: proposals against a listing of      *)
(* every deadline mode, an inactive, a deleted and an unknown listing,     *)
(* with every deadline, and edits of the deadline.                         *)
PolicyListingIds == DOMAIN Listings \cup {"L9"}

PolicyCreateForms ==
  [payload : {[valid |-> TRUE, generalOptions |-> <<>>,
               subjectOptions |-> <<>>]},
   listingId : {<<l>> : l \in PolicyListingIds},
   deadline : Opt(Dates),
   generalDescription : {<<>>, <<"d1">>},
   referenceBlobs : {0},
   uploadFails : {FALSE}]

PolicyUpdateForms ==
  [payload : {[valid |-> TRUE, generalOptions |-> <<>>,
               subjectOptions |-> <<>>]},
   deadline : Opt(Dates),
   generalDescription : {<<>>},
   existingReferences : {0},
   referenceBlobs : {0},
   uploadFails : {FALSE}]

(* Inputs of the sweeper runs: a store of MaxSweep documents, each absent  *)
(* or a proposal in any status with any expiry threshold, and every asOf.  *)
SweepIds == 1..MaxSweep

SweepDates == 0..(MaxTime + 1)

SweepProposal(status, expiresAt) ==
  [clientId |-> "c1", artistId |-> "a1", listingId |-> "L1",
   earliestDate |-> 1, latestDate |-> 2, deadline |-> 2, baseDate |-> 0,
   generalDescription |-> "d1", referenceImages |-> 0,
   generalOptions |-> <<>>, subjectOptions |-> <<>>,
   status |-> status,
   artistAdjustments |->
     IF status \in {"pendingClient", "rejectedClient"}
     THEN <<[proposedSurcharge |-> <<5>>, proposedDiscount |-> <<>>,
             proposedDate |-> 0]>>
     ELSE <<>>,
   rejectionReason |->
     IF status = "rejectedArtist" THEN <<"not now">> ELSE <<>>,
   expiresAt |-> expiresAt]

SweepProposals ==
  {NoProposal}
  \cup {SweepProposal(status, expiresAt) :
          status \in Statuses, expiresAt \in 0..MaxTime}

(* The requests that can be in progress at the same time on the proposal:  *)
(* one response of the artist, one of the client, one finalization and two *)
(* runs of the sweeper.  A request that is not in progress is Idle.        *)
Sweepers == {"sweep1", "sweep2"}

Requests == {"artist", "client", "finalize"} \cup Sweepers

Idle == [pc |-> "idle"]

RaceArtistDecisions ==
  {[acceptProposal |-> FALSE, surcharge |-> <<>>, discount |-> <<>>,
    rejectionReason |-> <<"not now">>],
   [acceptProposal |-> TRUE, surcharge |-> <<>>, discount |-> <<>>,
    rejectionReason |-> <<>>],
   [acceptProposal |-> TRUE, surcharge |-> <<5>>, discount |-> <<>>,
    rejectionReason |-> <<>>]}

RaceClientDecisions ==
  {[cancel |-> <<TRUE>>, acceptAdjustments |-> <<>>],
   [cancel |-> <<>>, acceptAdjustments |-> <<TRUE>>],
   [cancel |-> <<>>, acceptAdjustments |-> <<FALSE>>]}

(* Inputs of the price runs: every list of at most MaxSelections           *)
(* selections or addons, at most MaxGroups groups, with and without a base *)
(* price, and with no, one or two subjects.                                *)
SeqsUpTo(S, n) == UNION {[1..k -> S] : k \in 0..n}

PricedItems(prices) == [id : {<<>>}, price : prices]

PriceGroups ==
  [id : {<<>>},
   selections : SeqsUpTo(PricedItems({200, 500}), MaxSelections)]

PriceGeneralOptions ==
  [optionGroups : Opt(SeqsUpTo(PriceGroups, MaxGroups)),
   addons : Opt(SeqsUpTo(PricedItems({300}), MaxSelections)),
   questions : {<<>>}]

PriceSubject(selections, addons) ==
  [id |-> <<>>,
   optionGroups |-> <<(<<[id |-> <<>>, selections |-> selections]>>)>>,
   addons |-> addons,
   questions |-> <<>>]

PriceSubjectOptions ==
  {<<>>,
   <<(<<>>)>>,
   <<(<<PriceSubject(<<[id |-> <<>>, price |-> 200],
                       [id |-> <<>>, price |-> 500]>>,
                     <<(<<[id |-> <<>>, price |-> 300]>>)>>)>>)>>,
   <<(<<PriceSubject(<<[id |-> <<>>, price |-> 500]>>, <<>>),
       PriceSubject(<<>>, <<(<<[id |-> <<>>, price |-> 300],
                              [id |-> <<>>, price |-> 300]>>)>>)>>)>>}

PricePayloads ==
  [basePrice : Opt({0, 1000}),
   milestones : {<<>>},
   generalOptions : Opt(PriceGeneralOptions),
   subjectOptions : PriceSubjectOptions]

(* Inputs of the normalization runs: questions in every submitted form    *)
(* (string, {title}, {label}, {label, id}, {id, text}, another value),     *)
(* and milestones, groups, selections, addons and subjects with and        *)
(* without an id.                                                          *)
QuestionInputs ==
  {[type |-> "string", value |-> "q1"],
   [type |-> "object", value |-> [title |-> "q2"]],
   [type |-> "object", value |-> [label |-> "q3"]],
   [type |-> "object", value |-> [label |-> "q4", id |-> 7]],
   [type |-> "object", value |-> [id |-> 1, text |-> "q5"]],
   [type |-> "boolean", value |-> TRUE]}

(* An item comes without an id or with one; 2 is an id that a place in the *)
(* same list can have as well.                                             *)
ItemIds == {<<>>, <<2>>}

NoOptions == [optionGroups |-> <<>>, addons |-> <<>>, questions |-> <<>>]

QuestionPayloads ==
  {[basePrice |-> <<1000>>, milestones |-> <<>>,
    generalOptions |-> <<[NoOptions EXCEPT !.questions = general]>>,
    subjectOptions |-> subject] :
     general \in Opt(SeqsUpTo(QuestionInputs, MaxSelections)),
     subject \in
       {<<>>,
        <<(<<[id |-> <<>>, optionGroups |-> <<>>, addons |-> <<>>,
              questions |-> <<(<<[type |-> "string", value |-> "q1"]>>)>>]>>)>>}}

IdPayloads ==
  [basePrice : {<<1000>>},
   milestones : Opt(SeqsUpTo([id : ItemIds, percent : {50}], MaxSelections)),
   generalOptions :
     {<<options>> :
        options \in
          [optionGroups :
             Opt(SeqsUpTo([id : ItemIds,
                           selections :
                             SeqsUpTo([id : ItemIds, price : {200}],
                                      MaxSelections)], 1)),
           addons : Opt(SeqsUpTo([id : ItemIds, price : {300}],
                                 MaxSelections)),
           questions : {<<>>}]},
   subjectOptions :
     {<<>>} \cup
     {<<(<<[NoOptions EXCEPT !.addons = <<(<<[id |-> <<>>, price |-> 300]>>)>>]
            @@ [id |-> id]>>)>> : id \in ItemIds}]

NormalizePayloads == QuestionPayloads \cup IdPayloads

(* Inputs of the listing runs: listings of either flow with no milestones, *)
(* an empty list and lists whose percentages sum to 90 and to 100; every   *)
(* kind of slots value; forms that fail before the validation; updates of  *)
(* one or several fields, by the owner and by another user.  price is a    *)
(* field a caller may submit that is not among the allowed ones.           *)
MilestoneList(percents) ==
  [k \in DOMAIN percents |-> [id |-> <<>>, percent |-> percents[k]]]

MilestoneInputs ==
  {<<>>}
  \cup {<<MilestoneList(percents)>> :
          percents \in {<<>>, <<30, 30, 30>>, <<30, 30, 40>>, <<100>>}}

SlotInputs == {<<>>, <<Null>>, <<Num(0)>>, <<Num(0 - 1)>>, <<Num(3)>>}

ListingOptionInputs ==
  {<<>>,
   <<[optionGroups |->
        <<(<<[id |-> <<>>,
              selections |-> <<[id |-> <<>>, price |-> 200],
                               [id |-> <<>>, price |-> 500]>>]>>)>>,
      addons |-> <<(<<[id |-> <<>>, price |-> 300]>>)>>,
      questions |-> <<>>]>>}

RawPayloads(flows, deadlines) ==
  [title : {<<>>}, type : {<<>>}, flow : flows, basePrice : {<<>>},
   deadline : deadlines, cancelationFee : {<<10>>},
   slots : SlotInputs, revisions : {<<>>, <<"milestone">>},
   milestones : MilestoneInputs, generalOptions : {<<>>},
   subjectOptions : {<<>>}, price : {<<>>}]

GoodPayload ==
  [title |-> <<>>, type |-> <<>>, flow |-> <<>>, basePrice |-> <<>>,
   deadline |-> <<"standard">>, cancelationFee |-> <<10>>,
   slots |-> <<Num(3)>>, revisions |-> <<>>, milestones |-> <<>>,
   generalOptions |-> <<>>, subjectOptions |-> <<>>, price |-> <<>>]

GoodCreateForm ==
  [payloadParses |-> TRUE, payload |-> GoodPayload, title |-> <<"t1">>,
   type |-> <<"template">>, flow |-> <<"standard">>,
   basePrice |-> <<1000>>, samples |-> 1, thumbnailIdx |-> <<0>>,
   uploadFails |-> FALSE]

(* One form for each check that precedes the validation of the payload *)
FailingCreateForms ==
  {[GoodCreateForm EXCEPT !.payloadParses = FALSE],
   [GoodCreateForm EXCEPT !.title = <<>>],
   [GoodCreateForm EXCEPT !.flow = <<"">>],
   [GoodCreateForm EXCEPT !.uploadFails = TRUE],
   [GoodCreateForm EXCEPT !.samples = 0, !.thumbnailIdx = <<>>],
   [GoodCreateForm EXCEPT !.thumbnailIdx = <<1>>]}

CatalogCreateForms ==
  {[GoodCreateForm EXCEPT
      !.payload = payload, !.flow = flow, !.basePrice = basePrice] :
     payload \in RawPayloads({<<>>}, {<<>>, <<"standard">>}),
     flow \in {<<"standard">>, <<"milestone">>},
     basePrice \in {<<1000>>}}
  \cup
  {[GoodCreateForm EXCEPT
      !.payload = [GoodPayload EXCEPT !.generalOptions = options],
      !.basePrice = basePrice] :
     options \in ListingOptionInputs, basePrice \in {<<>>, <<1000>>}}
  \cup FailingCreateForms

CatalogUpdates ==
  RawPayloads({<<>>, <<"standard">>, <<"milestone">>}, {<<>>})
  \cup
  {[GoodPayload EXCEPT !.deadline = <<>>, !.cancelationFee = <<>>,
                       !.slots = <<>>, !.generalOptions = options,
                       !.basePrice = basePrice, !.price = price] :
     options \in ListingOptionInputs, basePrice \in {<<>>, <<0>>},
     price \in {<<>>, <<[min |-> 0, max |-> 0]>>}}

GoodUpdateForm ==
  [payloadParses |-> TRUE,
   payload |-> [GoodPayload EXCEPT !.deadline = <<>>,
                                   !.cancelationFee = <<>>, !.slots = <<>>],
   title |-> <<>>, type |-> <<>>, flow |-> <<>>, basePrice |-> <<>>,
   existingSamples |-> 0, samples |-> 0, thumbnailIdx |-> <<>>,
   uploadFails |-> FALSE]

CatalogUpdateForms ==
  {[GoodUpdateForm EXCEPT
      !.payload = [@ EXCEPT !.milestones = milestones, !.slots = slots],
      !.flow = flow] :
     milestones \in MilestoneInputs,
     slots \in {<<>>, <<Num(0)>>, <<Num(0 - 1)>>},
     flow \in {<<>>, <<"standard">>, <<"milestone">>}}
  \cup
  {[GoodUpdateForm EXCEPT !.payloadParses = FALSE],
   [GoodUpdateForm EXCEPT !.title = <<"t2">>, !.basePrice = <<500>>],
   [GoodUpdateForm EXCEPT !.samples = 1, !.uploadFails = TRUE],
   [GoodUpdateForm EXCEPT !.existingSamples = 1, !.samples = 1,
                          !.thumbnailIdx = <<1>>],
   [GoodUpdateForm EXCEPT !.existingSamples = 1, !.thumbnailIdx = <<1>>],
   [GoodUpdateForm EXCEPT !.existingSamples = 1, !.uploadFails = TRUE]}

(* Inputs of the failure runs: for each operation one input that goes      *)
(* through and inputs that fail in each way: a malformed payload, a        *)
(* missing field, a listing that is missing or inactive, a deadline        *)
(* outside the policy, too many images, a failed upload, a payload that    *)
(* does not validate.                                                      *)
AtomicCreateForms ==
  ImageCreateForms
  \cup
  {[payload |-> payload, listingId |-> listingId, deadline |-> deadline,
    generalDescription |-> description, referenceBlobs |-> 1,
    uploadFails |-> FALSE] :
     payload \in {p \in Payloads : p.generalOptions = <<>>},
     listingId \in {<<>>, <<"L1">>, <<"L4">>, <<"L9">>},
     deadline \in {<<>>, <<0>>, <<MaxDeadline>>},
     description \in {<<>>, <<" ">>, <<"d1">>}}

AtomicCreateListingForms ==
  FailingCreateForms
  \cup
  {[GoodCreateForm EXCEPT !.payload = payload] :
     payload \in
       {GoodPayload,
        [GoodPayload EXCEPT !.deadline = <<>>],
        [GoodPayload EXCEPT !.slots = <<Num(0)>>],
        [GoodPayload EXCEPT
           !.milestones = <<MilestoneList(<<30, 30, 30>>)>>]}}

AtomicUpdates ==
  {[GoodPayload EXCEPT !.deadline = <<>>, !.cancelationFee = <<>>,
                       !.slots = slots, !.milestones = milestones] :
     slots \in {<<>>, <<Num(0)>>},
     milestones \in {<<>>, <<MilestoneList(<<30, 30, 30>>)>>,
                     <<MilestoneList(<<30, 30, 40>>)>>}}

AtomicListingUpdateForms ==
  {form \in CatalogUpdateForms :
     /\ form.flow \in {<<>>, <<"milestone">>}
     /\ form.payload.slots \in {<<>>, <<Num(0)>>}
     /\ form.payload.milestones \in {<<>>, <<MilestoneList(<<100>>)>>}}

NoCall == [op |-> "none"]

Call(op, actor, id, input, result) ==
  [op |-> op, actor |-> actor, proposalId |-> id, input |-> input,
   err |-> result.err, before |-> proposals, today |-> now,
   listingsBefore |-> commissionListings]

----------------------------------------------------------------------------
(* The state machine *)

Init ==
  /\ proposals = [i \in ProposalIds |-> NoProposal]
  /\ now = 0
  /\ contractDeadline = [a \in Artists |-> <<>>]
  /\ lastCall = NoCall
  /\ inflight = [r \in Requests |-> Idle]
  /\ commissionListings = [i \in StoredListingIds |-> NoListing]

CreateProposal(Forms) ==
  \E clientId \in Clients, form \in Forms :
    LET result == createProposalFromForm(proposals, now, contractDeadline,
                                         clientId, form)
    IN /\ lastCall = NoCall
       /\ FreeIds(proposals) # {}
       /\ proposals' = result.store
       /\ lastCall' = Call("createProposal", clientId, 0, form, result)
       /\ UNCHANGED <<now, contractDeadline, inflight, commissionListings>>

UpdateProposal(Forms) ==
  \E userId \in Users, id \in CallIds, form \in Forms :
    LET result == updateProposalFromForm(proposals, now, contractDeadline,
                                         id, userId, form)
    IN /\ lastCall = NoCall
       /\ proposals' = result.store
       /\ lastCall' = Call("updateProposal", userId, id, form, result)
       /\ UNCHANGED <<now, contractDeadline, inflight, commissionListings>>

ArtistRespond(Decisions) ==
  \E artistId \in Users, id \in CallIds, decision \in Decisions :
    LET result == artistRespond(proposals, now, artistId, id, decision)
    IN /\ lastCall = NoCall
       /\ proposals' = result.store
       /\ lastCall' = Call("artistRespond", artistId, id, decision, result)
       /\ UNCHANGED <<now, contractDeadline, inflight, commissionListings>>

ClientRespond(Decisions) ==
  \E clientId \in Users, id \in CallIds, decision \in Decisions :
    LET result == clientRespond(proposals, clientId, id, decision)
    IN /\ lastCall = NoCall
       /\ proposals' = result.store
       /\ lastCall' = Call("clientRespond", clientId, id, decision, result)
       /\ UNCHANGED <<now, contractDeadline, inflight, commissionListings>>

(* finalizeProposal takes no actor; caller is the user whose request       *)
(* reaches it.                                                             *)
FinalizeProposal ==
  \E caller \in Users, id \in CallIds :
    LET result == finalizeProposal(proposals, id)
    IN /\ lastCall = NoCall
       /\ proposals' = result.store
       /\ lastCall' = Call("finalizeProposal", caller, id, <<>>, result)
       /\ UNCHANGED <<now, contractDeadline, inflight, commissionListings>>

(* The sweeper runs with the default asOf = new Date(). *)
ExpireOldProposals ==
  LET result == expireOldProposals(proposals, now)
  IN /\ lastCall = NoCall
     /\ proposals' = result.store
     /\ lastCall' = Call("expireOldProposals", "system", 0, <<now>>, result)
                       @@ [count |-> result.count]
     /\ UNCHANGED <<now, contractDeadline, inflight, commissionListings>>

(* The sweeper as the schedule runs it (spec.md 4.5, 5): independently of  *)
(* the requests, so it does not wait for a request to return.              *)
ScheduledSweep ==
  LET result == expireOldProposals(proposals, now)
  IN /\ proposals' = result.store
     /\ lastCall' = Call("expireOldProposals", "system", 0, <<now>>, result)
                       @@ [count |-> result.count]
     /\ UNCHANGED <<now, contractDeadline, inflight, commissionListings>>

(* The deadline validator applied on its own to a listing, a deadline and  *)
(* an availability window.                                                 *)
ValidateDeadline ==
  \E listingId \in DOMAIN Listings, deadline \in Dates,
     earliestDate \in Dates, latestDate \in Dates :
    LET err == validateDeadline(Listings[listingId], deadline,
                                earliestDate, latestDate)
    IN /\ lastCall = NoCall
       /\ lastCall' = Call("validateDeadline", "system", 0,
                           [listingId |-> listingId, deadline |-> deadline,
                            earliestDate |-> earliestDate,
                            latestDate |-> latestDate],
                           [err |-> err])
       /\ UNCHANGED <<proposals, now, contractDeadline, inflight,
                      commissionListings>>

(* The availability window is asked for, for a listing or for an id that   *)
(* resolves to none.                                                       *)
GetDynamicEstimate ==
  /\ lastCall = NoCall
  /\ \E caller \in Clients, listingId \in PolicyListingIds :
       LET result == getDynamicEstimate(contractDeadline, now, listingId)
       IN lastCall' = Call("getDynamicEstimate", caller, 0, listingId, result)
                        @@ [result |-> result]
  /\ UNCHANGED <<proposals, now, contractDeadline, inflight,
                 commissionListings>>

(* A user asks whether they may respond to a proposal in a role. *)
CanRespondToProposal ==
  /\ lastCall = NoCall
  /\ \E userId \in Users, id \in CallIds, role \in {"artist", "client"} :
       lastCall' = Call("canRespondToProposal", userId, id, role,
                        [err |-> "none"])
                     @@ [answer |-> canRespondToProposal(proposals, id,
                                                         userId, role)]
  /\ UNCHANGED <<proposals, now, contractDeadline, inflight,
                 commissionListings>>

(* The sweeper called with an explicit asOf. *)
SweepAt ==
  \E asOf \in SweepDates :
    LET result == expireOldProposals(proposals, asOf)
    IN /\ lastCall = NoCall
       /\ proposals' = result.store
       /\ lastCall' = Call("expireOldProposals", "system", 0, <<asOf>>, result)
                         @@ [count |-> result.count, run |-> 1]
       /\ UNCHANGED <<now, contractDeadline, inflight, commissionListings>>

(* The sweeper called once more with the asOf of the run that has just     *)
(* ended, before any other operation.                                      *)
SweepAgain ==
  LET asOf == lastCall.input[1]
      result == expireOldProposals(proposals, asOf)
  IN /\ lastCall.op = "expireOldProposals"
     /\ lastCall.run = 1
     /\ proposals' = result.store
     /\ lastCall' = Call("expireOldProposals", "system", 0, <<asOf>>, result)
                       @@ [count |-> result.count, run |-> 2,
                           firstCount |-> lastCall.count]
     /\ UNCHANGED <<now, contractDeadline, inflight, commissionListings>>

(* Requests in progress together.  A request reads the proposal and runs   *)
(* the service's tests (Read); if they pass it waits for the database and  *)
(* then makes the repository call (Write), which sees the proposal as it   *)
(* is stored by then.  seen is the status the tests were made on.          *)
SeenStatus(id) == getProposalById(proposals, id).status

Waiting(actor, id, decision) ==
  [pc |-> "write", actor |-> actor, proposalId |-> id, decision |-> decision,
   today |-> now, seen |-> SeenStatus(id)]

ArtistRead ==
  \E artistId \in Artists, id \in ProposalIds,
     decision \in RaceArtistDecisions :
    LET err == artistRespondGuard(proposals, artistId, id, decision) IN
    /\ lastCall = NoCall
    /\ inflight["artist"] = Idle
    /\ IF err = "none"
       THEN /\ inflight' = [inflight EXCEPT
                              !["artist"] = Waiting(artistId, id, decision)]
            /\ UNCHANGED lastCall
       ELSE /\ lastCall' = Call("artistRespond", artistId, id, decision,
                                [err |-> err])
                             @@ [seen |-> SeenStatus(id)]
            /\ UNCHANGED inflight
    /\ UNCHANGED <<proposals, now, contractDeadline, commissionListings>>

ArtistWrite ==
  LET request == inflight["artist"]
      result == artistRespondWrite(proposals, request.today,
                                   request.proposalId, request.decision)
  IN /\ lastCall = NoCall
     /\ request # Idle
     /\ proposals' = result.store
     /\ lastCall' = Call("artistRespond", request.actor, request.proposalId,
                         request.decision, result)
                      @@ [seen |-> request.seen]
     /\ inflight' = [inflight EXCEPT !["artist"] = Idle]
     /\ UNCHANGED <<now, contractDeadline, commissionListings>>

ClientRead ==
  \E clientId \in Clients, id \in ProposalIds,
     decision \in RaceClientDecisions :
    LET err == clientRespondGuard(proposals, clientId, id, decision) IN
    /\ lastCall = NoCall
    /\ inflight["client"] = Idle
    /\ IF err = "none"
       THEN /\ inflight' = [inflight EXCEPT
                              !["client"] = Waiting(clientId, id, decision)]
            /\ UNCHANGED lastCall
       ELSE /\ lastCall' = Call("clientRespond", clientId, id, decision,
                                [err |-> err])
                             @@ [seen |-> SeenStatus(id)]
            /\ UNCHANGED inflight
    /\ UNCHANGED <<proposals, now, contractDeadline, commissionListings>>

ClientWrite ==
  LET request == inflight["client"]
      result == clientRespondWrite(proposals, request.actor,
                                   request.proposalId, request.decision)
  IN /\ lastCall = NoCall
     /\ request # Idle
     /\ proposals' = result.store
     /\ lastCall' = Call("clientRespond", request.actor, request.proposalId,
                         request.decision, result)
                      @@ [seen |-> request.seen]
     /\ inflight' = [inflight EXCEPT !["client"] = Idle]
     /\ UNCHANGED <<now, contractDeadline, commissionListings>>

FinalizeRead ==
  \E id \in ProposalIds :
    LET err == finalizeProposalGuard(proposals, id) IN
    /\ lastCall = NoCall
    /\ inflight["finalize"] = Idle
    /\ IF err = "none"
       THEN /\ inflight' = [inflight EXCEPT
                              !["finalize"] = Waiting("system", id, <<>>)]
            /\ UNCHANGED lastCall
       ELSE /\ lastCall' = Call("finalizeProposal", "system", id, <<>>,
                                [err |-> err])
                             @@ [seen |-> SeenStatus(id)]
            /\ UNCHANGED inflight
    /\ UNCHANGED <<proposals, now, contractDeadline, commissionListings>>

FinalizeWrite ==
  LET request == inflight["finalize"]
      result == finalizeAcceptance(proposals, request.proposalId)
  IN /\ lastCall = NoCall
     /\ request # Idle
     /\ proposals' = result.store
     /\ lastCall' = Call("finalizeProposal", "system", request.proposalId,
                         <<>>, result)
                      @@ [seen |-> request.seen]
     /\ inflight' = [inflight EXCEPT !["finalize"] = Idle]
     /\ UNCHANGED <<now, contractDeadline, commissionListings>>

(* A run of the sweeper with asOf = new Date(): it goes over the documents *)
(* one by one, counts those it moves and returns the count.  counted is    *)
(* kept after the run has returned.                                        *)
SweepStart(sweeper) ==
  /\ lastCall = NoCall
  /\ inflight[sweeper] = Idle
  /\ inflight' = [inflight EXCEPT
                    ![sweeper] = [pc |-> "sweeping", asOf |-> now,
                                  todo |-> DOMAIN proposals, counted |-> {}]]
  /\ UNCHANGED <<proposals, now, contractDeadline, lastCall,
                 commissionListings>>

SweepVisit(sweeper) ==
  LET run == inflight[sweeper] IN
  /\ lastCall = NoCall
  /\ run.pc = "sweeping"
  /\ \E id \in run.todo :
       LET result == expirePending(proposals, id, run.asOf) IN
       /\ proposals' = result.store
       /\ inflight' = [inflight EXCEPT
                         ![sweeper] =
                            [run EXCEPT
                               !.todo = @ \ {id},
                               !.counted = IF result.moved
                                           THEN @ \cup {id} ELSE @]]
       /\ lastCall' = IF result.moved
                      THEN Call("expirePending", sweeper, id, <<run.asOf>>,
                                [err |-> "none"])
                      ELSE lastCall
  /\ UNCHANGED <<now, contractDeadline, commissionListings>>

SweepReturn(sweeper) ==
  LET run == inflight[sweeper] IN
  /\ lastCall = NoCall
  /\ run.pc = "sweeping"
  /\ run.todo = {}
  /\ inflight' = [inflight EXCEPT ![sweeper] = [run EXCEPT !.pc = "done"]]
  /\ lastCall' = Call("sweepReturn", sweeper, 0, <<run.asOf>>,
                      [err |-> "none"])
                   @@ [count |-> Cardinality(run.counted)]
  /\ UNCHANGED <<proposals, now, contractDeadline, commissionListings>>

(* The price range of a listing payload. *)
ComputePriceRange ==
  /\ lastCall = NoCall
  /\ \E payload \in PricePayloads :
       lastCall' = Call("computePriceRange", "system", 0, payload,
                        [err |-> "none"])
                     @@ [price |-> computePriceRange(payload)]
  /\ UNCHANGED <<proposals, now, contractDeadline, inflight,
                 commissionListings>>

(* A listing payload is normalized and its price range computed, as in     *)
(* createListingFromForm, commissionListing.service.ts:413-419.            *)
ProcessPayloadWithIds ==
  /\ lastCall = NoCall
  /\ \E payload \in NormalizePayloads :
       LET processedData == processPayloadWithIds(payload) IN
       lastCall' = Call("processPayloadWithIds", "system", 0, payload,
                        [err |-> "none"])
                     @@ [output |-> processedData,
                         price |-> computePriceRange(processedData),
                         pass |-> 1]
  /\ UNCHANGED <<proposals, now, contractDeadline, inflight,
                 commissionListings>>

(* The payload that has just been normalized is normalized once more. *)
ProcessAgain ==
  LET payload == lastCall.output
      processedData == processPayloadWithIds(payload)
  IN /\ lastCall.op = "processPayloadWithIds"
     /\ lastCall.pass = 1
     /\ lastCall' = Call("processPayloadWithIds", "system", 0, payload,
                         [err |-> "none"])
                      @@ [output |-> processedData,
                          price |-> computePriceRange(processedData),
                          pass |-> 2,
                          firstPrice |-> lastCall.price]
     /\ UNCHANGED <<proposals, now, contractDeadline, inflight,
                    commissionListings>>

(* The listing operations.  A listing is created while the store has room *)
(* for it.                                                                 *)
CreateListing(Forms) ==
  /\ lastCall = NoCall
  /\ FreeListingIds(commissionListings) # {}
  /\ \E artistId \in Artists, form \in Forms :
       LET result == createListingFromForm(commissionListings, artistId, form)
       IN /\ commissionListings' = result.store
          /\ lastCall' = Call("createListing", artistId, 0, form, result)
  /\ UNCHANGED <<proposals, now, contractDeadline, inflight>>

UpdateListing(Updates) ==
  /\ lastCall = NoCall
  /\ \E artistId \in Artists \cup {"u1"}, id \in StoredListingIds \cup {2},
        updates \in Updates :
       LET result == updateListing(commissionListings, artistId, id, updates)
       IN /\ commissionListings' = result.store
          /\ lastCall' = Call("updateListing", artistId, id, updates, result)
  /\ UNCHANGED <<proposals, now, contractDeadline, inflight>>

UpdateListingFromForm(Forms) ==
  /\ lastCall = NoCall
  /\ \E artistId \in Artists \cup {"u1"}, id \in StoredListingIds \cup {2},
        form \in Forms :
       LET result == updateListingFromForm(commissionListings, artistId, id,
                                           form)
       IN /\ commissionListings' = result.store
          /\ lastCall' = Call("updateListingFromForm", artistId, id, form,
                              result)
  /\ UNCHANGED <<proposals, now, contractDeadline, inflight>>

(* The call has returned to its caller; the next request may start.  Each  *)
(* operation runs to completion before the next one (spec.md 5).           *)
Return ==
  /\ lastCall # NoCall
  /\ lastCall' = NoCall
  /\ UNCHANGED <<proposals, now, contractDeadline, inflight,
                 commissionListings>>

(* Time passes. *)
Tick ==
  /\ lastCall = NoCall
  /\ now < MaxTime
  /\ now' = now + 1
  /\ UNCHANGED <<proposals, contractDeadline, lastCall, inflight,
                 commissionListings>>

(* Time passes whether or not a request is being served. *)
ClockAdvances ==
  /\ now < MaxTime
  /\ now' = now + 1
  /\ UNCHANGED <<proposals, contractDeadline, lastCall, inflight,
                 commissionListings>>

(* The artist's backlog of active contracts changes (external).            *)
ContractChange ==
  \E artistId \in Artists, d \in Opt(0..MaxContractDeadline) :
    /\ lastCall = NoCall
    /\ contractDeadline' = [contractDeadline EXCEPT ![artistId] = d]
    /\ UNCHANGED <<proposals, now, lastCall, inflight, commissionListings>>

Next ==
  \/ CreateProposal(BasicCreateForms)
  \/ UpdateProposal(BasicUpdateForms)
  \/ ArtistRespond(ArtistDecisions)
  \/ ClientRespond(ClientDecisions)
  \/ FinalizeProposal
  \/ ExpireOldProposals
  \/ Return
  \/ Tick

Spec == Init /\ [][Next]_vars

(* Editing runs: time passes and the artist's backlog changes between the  *)
(* creation of a proposal and its edits.                                   *)
NextEdit ==
  \/ CreateProposal(EditCreateForms)
  \/ UpdateProposal(EditUpdateForms)
  \/ ArtistRespond(EditArtistDecisions)
  \/ ClientRespond(EditClientDecisions)
  \/ Return
  \/ Tick
  \/ ContractChange

SpecEdit == Init /\ [][NextEdit]_vars

(* Deadline-policy runs: proposals are created against every listing and   *)
(* their deadline is edited while time passes.                             *)
NextPolicy ==
  \/ ValidateDeadline
  \/ CreateProposal(PolicyCreateForms)
  \/ UpdateProposal(PolicyUpdateForms)
  \/ Return
  \/ Tick

SpecPolicy == Init /\ [][NextPolicy]_vars

(* Availability-window runs: proposals are created and edited and the     *)
(* window is asked for while time passes and the artist's backlog of       *)
(* active contracts changes.                                               *)
NextWindow ==
  \/ GetDynamicEstimate
  \/ CreateProposal(BasicCreateForms)
  \/ UpdateProposal(BasicUpdateForms)
  \/ Return
  \/ Tick
  \/ ContractChange

SpecWindow == Init /\ [][NextWindow]_vars

(* Reference-image runs: a proposal is created and its reference images    *)
(* are edited.                                                             *)
NextImages ==
  \/ CreateProposal(ImageCreateForms)
  \/ UpdateProposal(ImageUpdateForms)
  \/ Return

SpecImages == Init /\ [][NextImages]_vars

(* Permission runs: the negotiation, with the permission helper asked in   *)
(* every status the proposal reaches.                                      *)
NextPermission ==
  \/ CreateProposal(BasicCreateForms)
  \/ ArtistRespond(ArtistDecisions)
  \/ ClientRespond(ClientDecisions)
  \/ CanRespondToProposal
  \/ Return

SpecPermission == Init /\ [][NextPermission]_vars

(* Failure runs: proposals and listings are created and updated with      *)
(* inputs that fail in every way, and the artist's response takes a        *)
(* proposal out of the status in which it can be edited.                   *)
NextAtomic ==
  \/ CreateProposal(AtomicCreateForms)
  \/ UpdateProposal({form \in EditUpdateForms :
                        form.deadline \in {<<>>, <<0>>}})
  \/ ArtistRespond(EditArtistDecisions)
  \/ CreateListing(AtomicCreateListingForms)
  \/ UpdateListing(AtomicUpdates)
  \/ UpdateListingFromForm(AtomicListingUpdateForms)
  \/ Return

SpecAtomic == Init /\ [][NextAtomic]_vars

(* Scheduled runs: clients and artists create, edit and answer proposals   *)
(* or do nothing, while time passes and the schedule runs the sweeper.     *)
(* The schedule is weakly fair: a sweep that would expire a proposal is    *)
(* not put off forever; likewise the clock, and a request that has been    *)
(* served returns.  Nothing is assumed of the clients and artists.        *)
NextScheduled ==
  \/ CreateProposal(BasicCreateForms)
  \/ UpdateProposal(BasicUpdateForms)
  \/ ArtistRespond(ArtistDecisions)
  \/ ClientRespond(ClientDecisions)
  \/ ScheduledSweep
  \/ ClockAdvances
  \/ Return

SpecScheduled ==
  /\ Init
  /\ [][NextScheduled]_vars
  /\ WF_vars(ScheduledSweep)
  /\ WF_vars(ClockAdvances)
  /\ WF_vars(Return)

(* Sweeper runs over a store of proposals in every status. *)
InitSweep ==
  /\ proposals \in [SweepIds -> SweepProposals]
  /\ now = 0
  /\ contractDeadline = [a \in Artists |-> <<>>]
  /\ lastCall = NoCall
  /\ inflight = [r \in Requests |-> Idle]
  /\ commissionListings = [i \in StoredListingIds |-> NoListing]

NextSweep ==
  \/ SweepAt
  \/ SweepAgain
  \/ Return

SpecSweep == InitSweep /\ [][NextSweep]_vars

(* Concurrent runs: the responses, the finalization and two sweeper runs   *)
(* interleave between a request's tests and its repository call.           *)
NextRace ==
  \/ CreateProposal(BasicCreateForms)
  \/ ArtistRead
  \/ ArtistWrite
  \/ ClientRead
  \/ ClientWrite
  \/ FinalizeRead
  \/ FinalizeWrite
  \/ \E sweeper \in Sweepers :
       \/ SweepStart(sweeper)
       \/ SweepVisit(sweeper)
       \/ SweepReturn(sweeper)
  \/ Return
  \/ Tick

SpecRace == Init /\ [][NextRace]_vars

(* Listing runs: the price range and the normalization of listing payloads *)
NextListing ==
  \/ ComputePriceRange
  \/ ProcessPayloadWithIds
  \/ ProcessAgain
  \/ Return

SpecListing == Init /\ [][NextListing]_vars

(* Catalog runs: a listing is created and then updated, with JSON updates  *)
(* and with forms.                                                         *)
NextCatalog ==
  \/ CreateListing(CatalogCreateForms)
  \/ UpdateListing(CatalogUpdates)
  \/ UpdateListingFromForm(CatalogUpdateForms)
  \/ Return

SpecCatalog == Init /\ [][NextCatalog]_vars

----------------------------------------------------------------------------
(* Properties.  lastCall records the call that produced the current state: *)
(* the operation, its caller and input, the error class it ended with, and *)
(* the proposal store as it was when the call started.                     *)

Called(op) == lastCall.op = op

Before == getProposalById(lastCall.before, lastCall.proposalId)

After == getProposalById(proposals, lastCall.proposalId)

Unchanged == proposals = lastCall.before

ByArtist == Exists(Before) /\ lastCall.actor = Before.artistId

ByClient == Exists(Before) /\ lastCall.actor = Before.clientId

HasAdjustment(decision) ==
  TruthyNum(decision.surcharge) \/ TruthyNum(decision.discount)

C2_CancelFromNonTerminal ==
  (/\ Called("clientRespond")
   /\ TruthyBool(lastCall.input.cancel)
   /\ ByClient
   /\ Before.status \in NonTerminalStatuses)
    => /\ lastCall.err = "none"
       /\ After = [Before EXCEPT !.status = "cancelled"]

C2_Witness ==
  /\ Called("clientRespond")
  /\ TruthyBool(lastCall.input.cancel)
  /\ ByClient
  /\ Before.status = "rejectedClient"
  /\ lastCall.err = "none"
  /\ After.status = "cancelled"

(* C3: an acceptance without adjustment by the proposal's artist moves the *)
(* proposal to accepted from pendingArtist and from rejectedClient; from   *)
(* every other status it fails with a state error and changes nothing.     *)
C3_PlainAccept ==
  (/\ Called("artistRespond")
   /\ lastCall.input.acceptProposal
   /\ ~HasAdjustment(lastCall.input)
   /\ ByArtist)
    => IF Before.status \in {"pendingArtist", "rejectedClient"}
       THEN /\ lastCall.err = "none"
            /\ After = [Before EXCEPT !.status = "accepted"]
       ELSE /\ lastCall.err = "State"
            /\ Unchanged

C3_Witness ==
  /\ Called("artistRespond")
  /\ lastCall.input.acceptProposal
  /\ ~HasAdjustment(lastCall.input)
  /\ ByArtist
  /\ Before.status = "rejectedClient"
  /\ After.status = "accepted"

(* C4, as claimed: an acceptance that carries a surcharge and/or a         *)
(* discount records the adjustment and moves the proposal to               *)
(* pendingClient.                                                          *)
C4_PresentAdjustmentGoesToClient ==
  (/\ Called("artistRespond")
   /\ lastCall.input.acceptProposal
   /\ lastCall.input.surcharge # <<>> \/ lastCall.input.discount # <<>>
   /\ ByArtist
   /\ Before.status \in {"pendingArtist", "rejectedClient"})
    => /\ lastCall.err = "none"
       /\ After.status = "pendingClient"

(* C4, amended: an acceptance with a non-zero surcharge and/or a non-zero  *)
(* discount records {proposedSurcharge, proposedDiscount, proposedDate =   *)
(* now} and moves the proposal to pendingClient, never to accepted; and a  *)
(* proposal leaves pendingClient for accepted only by the client's         *)
(* ratification.                                                           *)
C4_AdjustmentGoesToClient ==
  /\ (/\ Called("artistRespond")
      /\ lastCall.input.acceptProposal
      /\ HasAdjustment(lastCall.input)
      /\ ByArtist
      /\ Before.status \in {"pendingArtist", "rejectedClient"})
       => /\ lastCall.err = "none"
          /\ After =
               [Before EXCEPT
                  !.status = "pendingClient",
                  !.artistAdjustments =
                     <<[proposedSurcharge |-> lastCall.input.surcharge,
                        proposedDiscount |-> lastCall.input.discount,
                        proposedDate |-> lastCall.today]>>]
  /\ (/\ lastCall # NoCall
      /\ Exists(Before)
      /\ Before.status = "pendingClient"
      /\ After.status = "accepted")
       => /\ Called("clientRespond")
          /\ ByClient
          /\ TruthyBool(lastCall.input.acceptAdjustments)

C4_Witness ==
  /\ Called("artistRespond")
  /\ lastCall.input.acceptProposal
  /\ lastCall.input.surcharge = <<0>>
  /\ lastCall.input.discount = <<5>>
  /\ Before.status = "pendingArtist"
  /\ After.status = "pendingClient"
  /\ After.artistAdjustments[1].proposedDate = now
  /\ now > 0

(* C5: a rejection by the proposal's artist with a missing or empty reason *)
(* fails with a validation error and leaves status and rejection reason    *)
(* as they were; with a non-empty reason a proposal that awaits the artist *)
(* moves to rejectedArtist and keeps the reason.                           *)
C5_RejectNeedsReason ==
  (/\ Called("artistRespond")
   /\ ~lastCall.input.acceptProposal
   /\ ByArtist)
    => IF ~TruthyStr(lastCall.input.rejectionReason)
       THEN /\ lastCall.err = "Validation"
            /\ After.status = Before.status
            /\ After.rejectionReason = Before.rejectionReason
            /\ Unchanged
       ELSE Before.status \in {"pendingArtist", "rejectedClient"}
              => /\ lastCall.err = "none"
                 /\ After =
                      [Before EXCEPT
                         !.status = "rejectedArtist",
                         !.rejectionReason = lastCall.input.rejectionReason]

C5_Witness ==
  /\ Called("artistRespond")
  /\ ~lastCall.input.acceptProposal
  /\ ByArtist
  /\ lastCall.input.rejectionReason = <<"">>
  /\ Before.status = "pendingArtist"
  /\ lastCall.err = "Validation"
  /\ After.status = "pendingArtist"

(* C6: a response without cancel by the proposal's client is legal only in *)
(* pendingClient: ratifying moves the proposal to accepted, refusing moves *)
(* it to rejectedClient; from every other status it fails with a state     *)
(* error and changes nothing.                                              *)
C6_ClientRatifies ==
  (/\ Called("clientRespond")
   /\ ~TruthyBool(lastCall.input.cancel)
   /\ ByClient)
    => IF Before.status = "pendingClient"
       THEN /\ lastCall.err = "none"
            /\ lastCall.input.acceptAdjustments = <<TRUE>>
                 => After = [Before EXCEPT !.status = "accepted"]
            /\ lastCall.input.acceptAdjustments = <<FALSE>>
                 => After = [Before EXCEPT !.status = "rejectedClient"]
       ELSE /\ lastCall.err = "State"
            /\ Unchanged

C6_Witness ==
  /\ Called("clientRespond")
  /\ lastCall.input.cancel = <<FALSE>>
  /\ lastCall.input.acceptAdjustments = <<FALSE>>
  /\ ByClient
  /\ Before.status = "pendingClient"
  /\ After.status = "rejectedClient"

(* C7: finalizeProposal moves a proposal to finalized only from accepted;  *)
(* from every other status and for an unknown id it fails and changes      *)
(* nothing, so a proposal that becomes finalized was accepted just before. *)
C7_FinalizeOnlyAccepted ==
  /\ Called("finalizeProposal")
       => IF Exists(Before) /\ Before.status = "accepted"
          THEN /\ lastCall.err = "none"
               /\ After = [Before EXCEPT !.status = "finalized"]
          ELSE /\ lastCall.err # "none"
               /\ Unchanged
  /\ lastCall # NoCall
       => \A i \in DOMAIN proposals :
            (/\ proposals[i].status = "finalized"
             /\ lastCall.before[i].status # "finalized")
              => /\ lastCall.before[i].status = "accepted"
                 /\ Called("finalizeProposal")

C7_Witness ==
  /\ Called("finalizeProposal")
  /\ Before.status = "accepted"
  /\ After.status = "finalized"
  /\ lastCall.err = "none"

(* C8, as claimed: updateProposal, artistRespond, clientRespond and        *)
(* finalizeProposal check the caller against the proposal's client or      *)
(* artist; a call by anyone else fails with an authorization error and     *)
(* changes nothing.  For finalizeProposal the transition is the one out of *)
(* accepted.                                                               *)
C8_EveryTransitionChecksIdentity ==
  /\ (/\ Called("updateProposal") \/ Called("clientRespond")
      /\ Exists(Before)
      /\ lastCall.actor # Before.clientId)
       => lastCall.err = "Authorization" /\ Unchanged
  /\ (/\ Called("artistRespond")
      /\ Exists(Before)
      /\ lastCall.actor # Before.artistId)
       => lastCall.err = "Authorization" /\ Unchanged
  /\ (/\ Called("finalizeProposal")
      /\ Exists(Before)
      /\ Before.status = "accepted"
      /\ lastCall.actor \notin {Before.clientId, Before.artistId})
       => lastCall.err = "Authorization" /\ Unchanged

(* C9: updateProposal changes a proposal only when its caller is the       *)
(* proposal's client and the status is pendingArtist; a successful update  *)
(* touches the content (dates, deadline, description, options, reference   *)
(* images) and nothing else, in particular not the status; a failed one    *)
(* changes no field.                                                       *)
C9_EditOnlyPendingArtist ==
  Called("updateProposal") =>
    /\ lastCall.err = "none"
         => /\ ByClient
            /\ Before.status = "pendingArtist"
            /\ After.status = Before.status
            /\ After.clientId = Before.clientId
            /\ After.artistId = Before.artistId
            /\ After.listingId = Before.listingId
            /\ After.artistAdjustments = Before.artistAdjustments
            /\ After.rejectionReason = Before.rejectionReason
            /\ After.expiresAt = Before.expiresAt
    /\ lastCall.err # "none" => Unchanged
    /\ (Exists(Before) /\ (~ByClient \/ Before.status # "pendingArtist"))
         => lastCall.err # "none"

C9_Witness ==
  /\ Called("updateProposal")
  /\ lastCall.err = "none"
  /\ Before.status = "pendingArtist"
  /\ After.status = "pendingArtist"
  /\ After.generalDescription # Before.generalDescription
  /\ After.deadline # Before.deadline
  /\ After.earliestDate # Before.earliestDate

(* C10, as claimed: for a withDeadline listing the stored deadline is      *)
(* never earlier than the stored earliestDate, whatever creations and      *)
(* updates led to it.                                                      *)
C10_DeadlineNotBeforeEarliest ==
  \A i \in DOMAIN proposals :
    (/\ Exists(proposals[i])
     /\ findCommissionListingById(proposals[i].listingId).mode
          = "withDeadline")
      => proposals[i].deadline >= proposals[i].earliestDate

(* C11: the deadline validator by mode: withDeadline rejects a deadline    *)
(* exactly when it is strictly earlier than earliestDate (a deadline on    *)
(* earliestDate passes); withRush and standard accept every deadline; any  *)
(* other mode fails with a configuration error.                            *)
C11_DeadlineValidator ==
  Called("validateDeadline") =>
    LET input == lastCall.input
        mode == Listings[input.listingId].mode
    IN /\ mode = "withDeadline"
            => (lastCall.err = "Validation"
                  <=> input.deadline < input.earliestDate)
               /\ (lastCall.err = "none"
                  <=> input.deadline >= input.earliestDate)
       /\ mode \in {"withRush", "standard"} => lastCall.err = "none"
       /\ mode \notin {"withDeadline", "withRush", "standard"}
            => lastCall.err = "Configuration"

C11_Witness ==
  /\ Called("validateDeadline")
  /\ Listings[lastCall.input.listingId].mode = "withDeadline"
  /\ lastCall.input.deadline = lastCall.input.earliestDate
  /\ lastCall.err = "none"

C13_CreatePersistsOne ==
  Called("createProposal") =>
    LET form == lastCall.input
        listing == IF TruthyStr(form.listingId)
                   THEN findCommissionListingById(form.listingId[1])
                   ELSE NoListing
        usable == /\ listing # NoListing
                  /\ listing.isActive
                  /\ ~listing.isDeleted
        earliestDate ==
          repoComputeDynamicEstimate(
            listing,
            baseDateOf(contractDeadline, listing.artistId, lastCall.today)
          ).earliestDate
        policyPasses ==
          /\ form.deadline # <<>>
          /\ \/ listing.mode \in {"standard", "withRush"}
             \/ /\ listing.mode = "withDeadline"
                /\ form.deadline[1] >= earliestDate
        complete == /\ form.payload.valid
                    /\ TruthyStr(form.generalDescription)
                    /\ ~form.uploadFails
                    /\ form.referenceBlobs <= MaxReferenceImages
        created == {i \in DOMAIN proposals :
                      ~Exists(lastCall.before[i]) /\ Exists(proposals[i])}
    IN /\ (usable /\ policyPasses /\ complete) => lastCall.err = "none"
       /\ ~usable => lastCall.err \in {"NotFound", "Validation"}
       /\ (usable /\ ~policyPasses) => lastCall.err # "none"
       /\ lastCall.err # "none" => Unchanged
       /\ lastCall.err = "none"
            => /\ Cardinality(created) = 1
               /\ \A i \in created :
                    /\ proposals[i].status = "pendingArtist"
                    /\ proposals[i].clientId = lastCall.actor
                    /\ proposals[i].artistId = listing.artistId
                    /\ proposals[i].listingId = form.listingId[1]
               /\ \A i \in DOMAIN proposals \ created :
                    proposals[i] = lastCall.before[i]

C13_Witness ==
  /\ Called("createProposal")
  /\ lastCall.input.listingId = <<"L1">>
  /\ lastCall.err = "none"
  /\ now > 0
  /\ \E i \in DOMAIN proposals :
       /\ ~Exists(lastCall.before[i])
       /\ proposals[i].status = "pendingArtist"
       /\ proposals[i].deadline = proposals[i].earliestDate

(* C14: expireOldProposals(asOf) moves to expired exactly the proposals    *)
(* that are in pendingArtist or pendingClient and whose expiry threshold   *)
(* has passed as of asOf, leaves every other proposal unchanged, and       *)
(* returns the number of proposals it moved.                               *)
C14_SweepMovesExactlyTheDue ==
  Called("expireOldProposals") =>
    LET asOf == lastCall.input[1]
        due(p) == /\ Exists(p)
                  /\ p.status \in {"pendingArtist", "pendingClient"}
                  /\ p.expiresAt < asOf
        moved == {i \in DOMAIN proposals : due(lastCall.before[i])}
    IN /\ lastCall.err = "none"
       /\ \A i \in moved :
            proposals[i] = [lastCall.before[i] EXCEPT !.status = "expired"]
       /\ \A i \in DOMAIN proposals \ moved :
            proposals[i] = lastCall.before[i]
       /\ lastCall.count = Cardinality(moved)

C14_Witness ==
  /\ Called("expireOldProposals")
  /\ lastCall.count = 1
  /\ \E i, j \in DOMAIN proposals :
       /\ lastCall.before[i].status = "pendingClient"
       /\ proposals[i].status = "expired"
       /\ lastCall.before[j].status = "accepted"
       /\ lastCall.before[j].expiresAt < lastCall.input[1]
       /\ proposals[j].status = "accepted"

(* C15: a second run of expireOldProposals with the same asOf and no       *)
(* operation in between returns 0, raises no error and changes no          *)
(* proposal.                                                               *)
C15_SweepIdempotent ==
  (Called("expireOldProposals") /\ lastCall.run = 2)
    => /\ lastCall.count = 0
       /\ lastCall.err = "none"
       /\ Unchanged

C15_Witness ==
  /\ Called("expireOldProposals")
  /\ lastCall.run = 2
  /\ lastCall.firstCount = MaxSweep
  /\ lastCall.count = 0
  /\ \A i \in DOMAIN proposals : proposals[i].status = "expired"

LegalEdge(op, from, to) ==
  CASE op = "artistRespond" ->
         /\ from \in {"pendingArtist", "rejectedClient"}
         /\ to \in {"accepted", "pendingClient", "rejectedArtist"}
    [] op = "clientRespond" ->
         \/ from = "pendingClient" /\ to \in {"accepted", "rejectedClient"}
         \/ from \in NonTerminalStatuses /\ to = "cancelled"
    [] op = "finalizeProposal" -> from = "accepted" /\ to = "finalized"
    [] op = "expirePending" ->
         from \in {"pendingArtist", "pendingClient"} /\ to = "expired"
    [] OTHER -> FALSE

OptionsOf(input) ==
  (IF input.generalOptions # <<>>
   THEN {<<0, input.generalOptions[1]>>} ELSE {})
  \cup
  (IF input.subjectOptions # <<>>
   THEN {<<s, input.subjectOptions[1][s]>> :
           s \in DOMAIN input.subjectOptions[1]}
   ELSE {})

GroupsOf(input) ==
  UNION {IF o[2].optionGroups # <<>>
         THEN {<<o[1], g, o[2].optionGroups[1][g].selections>> :
                 g \in DOMAIN o[2].optionGroups[1]}
         ELSE {} : o \in OptionsOf(input)}

SelectionsOf(input) ==
  UNION {{<<gr[1], gr[2], k, gr[3][k].price>> : k \in DOMAIN gr[3]} :
           gr \in GroupsOf(input)}

AddonsOf(input) ==
  UNION {IF o[2].addons # <<>>
         THEN {<<o[1], 0, k, o[2].addons[1][k].price>> :
                 k \in DOMAIN o[2].addons[1]}
         ELSE {} : o \in OptionsOf(input)}

RECURSIVE TotalPrice(_)
TotalPrice(items) ==
  IF items = {} THEN 0
  ELSE LET item == CHOOSE i \in items : TRUE
       IN item[4] + TotalPrice(items \ {item})

Cheapest(selections) ==
  CHOOSE price \in {selections[k].price : k \in DOMAIN selections} :
    \A k \in DOMAIN selections : price <= selections[k].price

CheapestOfGroups(input) ==
  {<<gr[1], gr[2], 1, Cheapest(gr[3])>> :
     gr \in {g \in GroupsOf(input) : g[3] # <<>>}}

BasePriceOf(input) ==
  IF input.basePrice # <<>> THEN input.basePrice[1] ELSE 0

(* C18, as claimed: the minimum of the price range is basePrice plus the   *)
(* cheapest selection of every option group, general and per subject;      *)
(* addons add nothing to it.                                               *)
C18_MinIsCheapestPath ==
  Called("computePriceRange")
    => lastCall.price.min
         = BasePriceOf(lastCall.input)
           + TotalPrice(CheapestOfGroups(lastCall.input))

(* C19: the maximum of the price range is basePrice plus the prices of all *)
(* selections of all option groups and of all addons, over the general     *)
(* options and every subject; a missing basePrice counts as 0.             *)
C19_MaxIsEverything ==
  Called("computePriceRange")
    => /\ lastCall.price.max
            = BasePriceOf(lastCall.input)
              + TotalPrice(SelectionsOf(lastCall.input))
              + TotalPrice(AddonsOf(lastCall.input))
       /\ lastCall.input.basePrice = <<>>
            => lastCall.price.max
                 = TotalPrice(SelectionsOf(lastCall.input))
                   + TotalPrice(AddonsOf(lastCall.input))

C19_Witness ==
  /\ Called("computePriceRange")
  /\ lastCall.input.basePrice = <<1000>>
  /\ lastCall.input.generalOptions # <<>>
  /\ lastCall.input.generalOptions[1].optionGroups
       = <<(<<[id |-> <<>>,
               selections |-> <<[id |-> <<>>, price |-> 200],
                                [id |-> <<>>, price |-> 500]>>]>>)>>
  /\ lastCall.input.generalOptions[1].addons
       = <<(<<[id |-> <<>>, price |-> 300]>>)>>
  /\ lastCall.input.subjectOptions = <<>>
  /\ lastCall.price.max = 2000

(* C20, as claimed: processPayloadWithIds applied to a payload it has      *)
(* already normalized returns an identical structure: the same ids, the    *)
(* same question texts and the same price range.                           *)
C20_NormalizeIdempotent ==
  (Called("processPayloadWithIds") /\ lastCall.pass = 2)
    => /\ lastCall.output = lastCall.input
       /\ lastCall.price = lastCall.firstPrice

(* The lists of a payload whose items carry an id, each with its place:    *)
(* the kind of list, the subject s (0 for the general options) and the     *)
(* group g (0 when the list is not the selections of a group).             *)
IdLists(payload) ==
  (IF payload.milestones # <<>>
   THEN {<<"milestones", 0, 0, payload.milestones[1]>>} ELSE {})
  \cup
  (IF payload.subjectOptions # <<>>
   THEN {<<"subjects", 0, 0, payload.subjectOptions[1]>>} ELSE {})
  \cup
  {<<"optionGroups", o[1], 0, o[2].optionGroups[1]>> :
     o \in {x \in OptionsOf(payload) : x[2].optionGroups # <<>>}}
  \cup
  {<<"addons", o[1], 0, o[2].addons[1]>> :
     o \in {x \in OptionsOf(payload) : x[2].addons # <<>>}}
  \cup
  {<<"selections", gr[1], gr[2], gr[3]>> : gr \in GroupsOf(payload)}

SamePlace(l, m) == l[1] = m[1] /\ l[2] = m[2] /\ l[3] = m[3]

PresentIdsDistinct(list) ==
  \A j, k \in DOMAIN list :
    (j # k /\ list[j].id # <<>> /\ list[k].id # <<>>)
      => list[j].id # list[k].id

(* C27, as claimed: when the ids that the items of a submitted list carry  *)
(* are pairwise distinct, the ids of that list after normalization are     *)
(* pairwise distinct, also when the list mixes items with and without an   *)
(* id (milestones, option groups, selections of one group, addons,         *)
(* subjects).                                                              *)
C27_IdsDistinctWithinList ==
  (Called("processPayloadWithIds") /\ lastCall.pass = 1) =>
    \A l \in IdLists(lastCall.input) :
      PresentIdsDistinct(l[4])
        => \A m \in IdLists(lastCall.output) :
             SamePlace(l, m)
               => \A j, k \in DOMAIN m[4] :
                    j # k => m[4][j].id # m[4][k].id

(* The listing operation that produced the current state: the listing it   *)
(* addressed as it was stored before the call, and the value a field has   *)
(* in the listing the call validates (the submitted value, or the stored   *)
(* one when the call submits none).                                        *)
CalledListingOp ==
  lastCall.op \in {"createListing", "updateListing", "updateListingFromForm"}

ListingBefore == findStoredListing(lastCall.listingsBefore, lastCall.proposalId)

ListingAfter == findStoredListing(commissionListings, lastCall.proposalId)

ListingsUnchanged == commissionListings = lastCall.listingsBefore

Submitted(field) ==
  IF Called("updateListing") THEN lastCall.input[field]
  ELSE IF field = "flow"
  THEN IF TruthyStr(lastCall.input.flow) THEN lastCall.input.flow ELSE <<>>
  ELSE lastCall.input.payload[field]

Validated(field) ==
  IF Submitted(field) # <<>> THEN Submitted(field)
  ELSE IF ListingBefore # NoListing THEN ListingBefore[field]
  ELSE <<>>

NoMilestones(milestones) == milestones = <<>> \/ milestones[1] = <<>>

SumsTo100(milestones) ==
  ~NoMilestones(milestones) /\ sumPercent(milestones[1]) = 100

(* C22: a listing operation whose listing (on update: the stored listing   *)
(* with the submitted fields in place) has a non-empty milestone list that *)
(* does not sum to 100, or has flow milestone and no milestones, fails and *)
(* writes nothing; so every stored listing of flow milestone has           *)
(* milestones that sum to 100.                                             *)
C22_MilestonesSumTo100 ==
  /\ CalledListingOp =>
       LET flow == Validated("flow")
           milestones == Validated("milestones")
       IN (\/ ~NoMilestones(milestones) /\ ~SumsTo100(milestones)
           \/ flow = <<"milestone">> /\ NoMilestones(milestones))
            => lastCall.err # "none" /\ ListingsUnchanged
  /\ \A i \in DOMAIN commissionListings :
       (/\ commissionListings[i] # NoListing
        /\ commissionListings[i].flow = <<"milestone">>)
         => SumsTo100(commissionListings[i].milestones)

C22_Witness ==
  /\ Called("updateListing")
  /\ lastCall.err = "none"
  /\ lastCall.input.flow = <<"milestone">>
  /\ lastCall.input.milestones = <<>>
  /\ ListingBefore.flow = <<"standard">>
  /\ ListingAfter.flow = <<"milestone">>
  /\ Len(ListingAfter.milestones[1]) = 3
  /\ SumsTo100(ListingAfter.milestones)

Bounded(slots) == slots # <<>> /\ slots[1] # Null

(* C26, as claimed: a listing operation whose listing has a slots value    *)
(* that is zero or negative fails and writes nothing, on create and on     *)
(* update; no stored listing has slots <= 0 (a missing or null slots value *)
(* stands for unlimited capacity).                                         *)
C26_NonPositiveSlotsRejected ==
  /\ CalledListingOp =>
       LET slots == Validated("slots")
       IN (Bounded(slots) /\ slots[1].value <= 0)
            => lastCall.err # "none" /\ ListingsUnchanged
  /\ \A i \in DOMAIN commissionListings :
       (/\ commissionListings[i] # NoListing
        /\ Bounded(commissionListings[i].slots))
         => commissionListings[i].slots[1].value > 0

(* The later of the current time and the artist's most recent              *)
(* active-contract deadline, at the time of the call.                      *)
LaterOfNowAndBacklog(artistId) ==
  LET latest == contractDeadline[artistId] IN
  IF latest # <<>> /\ latest[1] > lastCall.today THEN latest[1]
  ELSE lastCall.today

(* C23, as claimed: the baseDate that createProposal and updateProposal    *)
(* store and that getDynamicEstimate returns is the later of the current   *)
(* time and the artist's most recent active-contract deadline, so it is    *)
(* never earlier than the current time.                                    *)
C23_BaseDateIsLaterOfNowAndBacklog ==
  /\ (Called("createProposal") /\ lastCall.err = "none")
       => \A i \in DOMAIN proposals :
            ~Exists(lastCall.before[i])
              => /\ proposals[i].baseDate
                      = LaterOfNowAndBacklog(proposals[i].artistId)
                 /\ proposals[i].baseDate >= lastCall.today
  /\ (Called("updateProposal") /\ lastCall.err = "none")
       => /\ After.baseDate = LaterOfNowAndBacklog(After.artistId)
          /\ After.baseDate >= lastCall.today
  /\ (Called("getDynamicEstimate") /\ lastCall.err = "none")
       => /\ lastCall.result.baseDate
               = LaterOfNowAndBacklog(Listings[lastCall.input].artistId)
          /\ lastCall.result.baseDate >= lastCall.today

(* C24: every stored proposal, after any sequence of createProposal and    *)
(* updateProposal calls, has earliestDate strictly before latestDate and   *)
(* earliestDate not earlier than its stored baseDate.                      *)
C24_WindowOrdered ==
  \A i \in DOMAIN proposals :
    Exists(proposals[i])
      => /\ proposals[i].earliestDate < proposals[i].latestDate
         /\ proposals[i].earliestDate >= proposals[i].baseDate

C24_Witness ==
  /\ Called("updateProposal")
  /\ lastCall.err = "none"
  /\ After.baseDate > Before.baseDate
  /\ After.earliestDate > Before.earliestDate
  /\ After.earliestDate < After.latestDate
  /\ After.earliestDate >= After.baseDate

(* C28, as claimed: every stored proposal has at most 5 reference images   *)
(* after any sequence of createProposal and updateProposal calls, also     *)
(* after an update that combines kept references with new images.          *)
C28_AtMostFiveReferenceImages ==
  \A i \in DOMAIN proposals :
    Exists(proposals[i])
      => proposals[i].referenceImages <= MaxReferenceImages

(* C29, as claimed: canRespondToProposal answers true for role artist      *)
(* exactly when the user is the proposal's artist and the status is        *)
(* pendingArtist or rejectedClient, that is when artistRespond accepting   *)
(* the proposal would go through for that user, and for role client        *)
(* exactly when the user is the proposal's client and the status is        *)
(* pendingClient, that is when clientRespond without cancel would.         *)
C29_HelperAgreesWithGuards ==
  Called("canRespondToProposal") =>
    LET userId == lastCall.actor
        id == lastCall.proposalId
        accept == [acceptProposal |-> TRUE, surcharge |-> <<>>,
                   discount |-> <<>>, rejectionReason |-> <<>>]
        ratify == [cancel |-> <<>>, acceptAdjustments |-> <<TRUE>>]
    IN IF lastCall.input = "artist"
       THEN /\ lastCall.answer
                 <=> (/\ Exists(After)
                      /\ After.artistId = userId
                      /\ After.status \in {"pendingArtist", "rejectedClient"})
            /\ lastCall.answer
                 <=> artistRespond(proposals, now, userId, id, accept).err
                       = "none"
       ELSE /\ lastCall.answer
                 <=> (/\ Exists(After)
                      /\ After.clientId = userId
                      /\ After.status = "pendingClient")
            /\ lastCall.answer
                 <=> clientRespond(proposals, userId, id, ratify).err = "none"

(* C25: a createProposal, updateProposal, createListing or updateListing   *)
(* call that fails, with a validation error, a state error, an upload      *)
(* failure or any other error, leaves the stored proposals and the stored  *)
(* listings exactly as they were before the call.                          *)
C25_FailuresWriteNothing ==
  (/\ lastCall.op \in {"createProposal", "updateProposal", "createListing",
                       "updateListing", "updateListingFromForm"}
   /\ lastCall.err # "none")
    => Unchanged /\ ListingsUnchanged

C25_Witness ==
  /\ Called("updateListingFromForm")
  /\ lastCall.err = "Upload"
  /\ ListingBefore # NoListing
  /\ ListingsUnchanged
  /\ Exists(proposals[1])
  /\ Unchanged

(* C30: no proposal stays pending forever.  With the sweeper scheduled     *)
(* fairly and time advancing past the expiry thresholds, a proposal in     *)
(* pendingArtist or pendingClient eventually leaves it, by a response, a   *)
(* cancellation or expiry, whatever the artist and the client do.  The     *)
(* thresholds the clock of the model can pass are those before MaxTime.    *)
Pending(id) ==
  /\ Exists(proposals[id])
  /\ proposals[id].status \in {"pendingArtist", "pendingClient"}

C30_NoProposalPendingForever ==
  \A id \in ProposalIds :
    (Pending(id) /\ proposals[id].expiresAt < MaxTime) ~> ~Pending(id)

C30_Witness ==
  /\ Called("expireOldProposals")
  /\ \E id \in ProposalIds :
       /\ Exists(lastCall.before[id])
       /\ lastCall.before[id].status = "pendingClient"
       /\ proposals[id].status = "expired"

====
